---- MODULE Spec2Model ----
(***************************************************************************)
(* A model of read_break: the ReadParser pipeline evaluator (parser.py),   *)
(* the sequence primitives (logic.py) and the metric registry              *)
(* (registry.py).                                                          *)
(*                                                                         *)
(* Python values are tagged tuples: <<"none">>, <<"int", n>>,              *)
(* <<"bool", b>>, <<"str", s>> (s a sequence of one-character strings,     *)
(* used for everything that is sliced or compared base by base),           *)
(* <<"name", s>> (a str used as an opaque identifier: a read id, a metric  *)
(* name, a status) and <<"tpl", e>> (a str holding "{{ e }}", e the        *)
(* expression between the braces).  Dict keys, step ids and op names are   *)
(* TLA+ strings.                                                           *)
(***************************************************************************)
EXTENDS Integers, Sequences, FiniteSets, TLC

VARIABLES
    steps,            \* self.steps, after _freeze_constants
    globals,          \* self.globals
    whitelist_sets,   \* self.whitelist_sets
    regex_patterns,   \* self.regex_patterns
    parse_log,        \* parse_log[p]: self.parse_log of parser p
    active,           \* the parser of the running (or last) parse call, 0 at first
    pc,               \* "loop" while a parse call is running, else "idle"
    pair,             \* the arguments of the running (or last) parse call
    idx,              \* position of the running call in `for step in self.steps`
    context,          \* the context dict of the running (or last) call
    trace,            \* history: what each executed step of this call did, and
                      \* the context it was called with
    log0,             \* history: the parse log of the called parser at the call
    result,           \* result[p]: the pair and the outcome of p's last call
    call,             \* a direct call of a function of logic.py or of a regex
                      \* search: its name, its arguments and what it returned
    clip,             \* a run of read_clip_and_write: the reader, the position
                      \* in it, the defaults and what the writer was handed
    resolving,        \* a run of _resolve_globals: self.globals with the order
                      \* of its keys, the position in the pass, `changed`
    evaluators        \* the threads that call parse on one shared ReadParser

vars == <<steps, globals, whitelist_sets, regex_patterns, parse_log, active,
          pc, pair, idx, context, trace, log0, result, call, clip, resolving,
          evaluators>>

\* Upper bound on the parse calls made on one parser.
MaxReads == 2

\* Upper bound on the length of the strings the functions are called on directly.
MaxLen == 3

\* Upper bound on the passes of _resolve_globals that are followed.
MaxPasses == 4

\* The two ReadParser objects built from the same specification.
Parsers == {1, 2}

-----------------------------------------------------------------------------
(* Python values *)

NoneV == <<"none">>
IntV(n) == <<"int", n>>
BoolV(b) == <<"bool", b>>
StrV(s) == <<"str", s>>
NameV(s) == <<"name", s>>
Tpl(e) == <<"tpl", e>>
Err(kind) == <<"err", kind>>

IsErr(v) == v[1] = "err"
IsNum(v) == v[1] \in {"int", "bool"}
Num(v) == IF v[1] = "int" THEN v[2] ELSE IF v[2] THEN 1 ELSE 0

\* bool(v)
Truthy(v) ==
    CASE v[1] = "none" -> FALSE
      [] v[1] = "int" -> v[2] # 0
      [] v[1] = "bool" -> v[2]
      [] v[1] = "str" -> Len(v[2]) > 0
      [] OTHER -> TRUE

\* a == b
PyEq(a, b) ==
    IF IsNum(a) /\ IsNum(b) THEN Num(a) = Num(b)
    ELSE a[1] = b[1] /\ a = b

Min(a, b) == IF a < b THEN a ELSE b
Max(a, b) == IF a > b THEN a ELSE b

\* s[i:j] for a str s and ints i, j (negative indices count from the end)
PySlice(s, i, j) ==
    LET n == Len(s)
        lo == IF i < 0 THEN Max(i + n, 0) ELSE Min(i, n)
        hi == IF j < 0 THEN Max(j + n, 0) ELSE Min(j, n)
    IN IF lo < hi THEN SubSeq(s, lo + 1, hi) ELSE <<>>

DigitChars == <<"0", "1", "2", "3", "4", "5", "6", "7", "8", "9">>

IsDigit(c) == \E d \in 1..10 : DigitChars[d] = c
DigitVal(c) == (CHOOSE d \in 1..10 : DigitChars[d] = c) - 1

RECURSIVE NatStr(_)
NatStr(n) ==
    IF n < 10 THEN <<DigitChars[n + 1]>>
    ELSE NatStr(n \div 10) \o <<DigitChars[(n % 10) + 1]>>

RECURSIVE DigitsVal(_)
DigitsVal(s) ==
    IF s = <<>> THEN 0
    ELSE 10 * DigitsVal(SubSeq(s, 1, Len(s) - 1)) + DigitVal(s[Len(s)])

AllDigits(s) == Len(s) > 0 /\ \A k \in 1..Len(s) : IsDigit(s[k])

\* str(v): what jinja writes for the value of an expression
PyStr(v) ==
    CASE v[1] = "none" -> StrV(<<"N", "o", "n", "e">>)
      [] v[1] = "bool" -> StrV(IF v[2] THEN <<"T", "r", "u", "e">>
                                       ELSE <<"F", "a", "l", "s", "e">>)
      [] v[1] = "int" -> StrV(IF v[2] < 0 THEN <<"-">> \o NatStr(-v[2])
                                          ELSE NatStr(v[2]))
      [] OTHER -> v

\* ast.literal_eval(rendered), the rendered text kept when it is no literal
LiteralEval(v) ==
    IF v[1] # "str" THEN v
    ELSE LET s == v[2] IN
         CASE s = <<"N", "o", "n", "e">> -> NoneV
           [] s = <<"T", "r", "u", "e">> -> BoolV(TRUE)
           [] s = <<"F", "a", "l", "s", "e">> -> BoolV(FALSE)
           [] AllDigits(s) /\ (s[1] # "0" \/ \A k \in 1..Len(s) : s[k] = "0")
                -> IntV(DigitsVal(s))
           [] Len(s) > 1 /\ s[1] = "-" /\ AllDigits(Tail(s))
                /\ (s[2] # "0" \/ \A k \in 2..Len(s) : s[k] = "0")
                -> IntV(-DigitsVal(Tail(s)))
           [] OTHER -> v

\* int(v); a ValueError or TypeError becomes Err
ToInt(v) ==
    CASE v[1] = "int" -> v
      [] v[1] = "bool" -> IntV(Num(v))
      [] v[1] = "str" ->
            IF AllDigits(v[2]) THEN IntV(DigitsVal(v[2]))
            ELSE IF Len(v[2]) > 1 /\ v[2][1] \in {"-", "+"} /\ AllDigits(Tail(v[2]))
            THEN IntV((IF v[2][1] = "-" THEN -1 ELSE 1) * DigitsVal(Tail(v[2])))
            ELSE Err("ValueError")
      [] v[1] = "none" -> Err("ValueError")
      [] OTHER -> Err("ValueError")

-----------------------------------------------------------------------------
(* logic.py and registry.py *)

\* hamming: sum(map(ne, x, y)); map stops at the end of the shorter string
Hamming(x, y) ==
    Cardinality({k \in 1..Min(Len(x), Len(y)) : x[k] # y[k]})

\* hamming35 that ignores the conversion in both directions
Hamming35Symmetric(from_string, to_string, from_letter, to_letter) ==
    Cardinality({k \in 1..Min(Len(from_string), Len(to_string)) :
        /\ from_string[k] # to_string[k]
        /\ ~(from_string[k] = from_letter /\ to_string[k] = to_letter)
        /\ ~(from_string[k] = to_letter /\ to_string[k] = from_letter)})

\* hamming35: mismatches other than from_letter -> to_letter; zip stops at the
\* end of the shorter string
Hamming35(from_string, to_string, from_letter, to_letter) ==
    Cardinality({k \in 1..Min(Len(from_string), Len(to_string)) :
        /\ from_string[k] # to_string[k]
        /\ ~(from_string[k] = from_letter /\ to_string[k] = to_letter)})

\* The keys of HAMMING_FUNCS
HAMMING_FUNCS == {"hamming", "hammingTC", "hammingAG"}

\* HAMMING_FUNCS[name](x, y)
HammingFn(name, x, y) ==
    CASE name = "hamming" -> Hamming(x, y)
      [] name = "hammingTC" -> Hamming35(x, y, "T", "C")
      [] name = "hammingAG" -> Hamming35(x, y, "A", "G")

\* The loop of wobble_match from `offset` on; `last` is base_offset + max_wobble.
\* target and max_hamming are Python values as _process_match passes them.
RECURSIVE WobbleFrom(_, _, _, _, _, _, _)
WobbleFrom(test, target, offset, last, base_offset, max_hamming, fn) ==
    IF offset > last THEN IntV(-1)
    ELSE IF target[1] # "str" THEN Err("TypeError")
    ELSE LET test_substring == PySlice(test, offset, offset + Len(target[2])) IN
         IF Len(test_substring) # Len(target[2]) THEN IntV(-1)
         ELSE IF max_hamming[1] # "int" THEN Err("TypeError")
         ELSE IF HammingFn(fn, target[2], test_substring) <= max_hamming[2]
              THEN IntV(offset - base_offset)
         ELSE WobbleFrom(test, target, offset + 1, last, base_offset,
                         max_hamming, fn)

\* wobble_match that prefers the offset with the fewest mismatches: the best
\* window of the wobble range, the smallest offset among equally good ones
WobbleMatchBest(test, target, max_wobble, max_hamming, base_offset, fn) ==
    LET H(r) == HammingFn(fn, target[2],
                          PySlice(test, base_offset[2] + r,
                                  base_offset[2] + r + Len(target[2])))
        ok == {r \in 0..max_wobble[2] :
                  /\ Len(PySlice(test, base_offset[2] + r,
                                 base_offset[2] + r + Len(target[2]))) = Len(target[2])
                  /\ H(r) <= max_hamming[2]}
    IN IF ok = {} THEN IntV(-1)
       ELSE IntV(CHOOSE r \in ok :
                    \A q \in ok : H(r) < H(q) \/ (H(r) = H(q) /\ r <= q))

\* wobble_match(test, target, max_wobble, max_hamming, base_offset, hamming_func)
WobbleMatch(test, target, max_wobble, max_hamming, base_offset, fn) ==
    IF max_wobble[1] # "int" \/ base_offset[1] # "int" THEN Err("TypeError")
    ELSE WobbleFrom(test, target, base_offset[2], base_offset[2] + max_wobble[2],
                    base_offset[2], max_hamming, fn)

-----------------------------------------------------------------------------
(* Templates: the expression between "{{" and "}}" is                      *)
(*   <<"lit", v>>  <<"var", k>>  <<"param", g>> (params.g)                 *)
(*   <<"add", e1, e2>>  <<"lt", e1, e2>>  <<"eq", e1, e2>>                 *)
(* and <<"cat", e, <<"lit", text>>>> is the template "{{ e }}text", with   *)
(* text after the closing braces.                                          *)

\* globals_namespace, the default of ReadParser.__init__
globals_namespace == "params"

\* jinja2.meta.find_undeclared_variables
RECURSIVE Undeclared(_)
Undeclared(e) ==
    CASE e[1] = "lit" -> {}
      [] e[1] = "var" -> {e[2]}
      [] e[1] = "param" -> {globals_namespace}
      [] OTHER -> Undeclared(e[2]) \cup Undeclared(e[3])

\* The value of expression e in the environment {**ctx, globals_namespace: g};
\* StrictUndefined makes an undefined name an error.  + is defined on numbers
\* and on two sliceable strings, < on numbers.  The text after the braces is
\* appended to what the expression is written as; when that is the text of a
\* template (a global not yet rendered), the result is a longer template.
RECURSIVE Eval(_, _, _)
Eval(e, ctx, g) ==
    CASE e[1] = "lit" -> e[2]
      [] e[1] = "var" ->
            IF e[2] = globals_namespace THEN <<"dict">>
            ELSE IF e[2] \in DOMAIN ctx THEN ctx[e[2]]
            ELSE Err("UndefinedError")
      [] e[1] = "param" ->
            IF e[2] \in DOMAIN g THEN g[e[2]] ELSE Err("UndefinedError")
      [] OTHER ->
            LET a == Eval(e[2], ctx, g)
                b == Eval(e[3], ctx, g)
            IN IF IsErr(a) THEN a
               ELSE IF IsErr(b) THEN b
               ELSE CASE e[1] = "eq" -> BoolV(PyEq(a, b))
                      [] e[1] = "cat" ->
                            IF a[1] = "tpl" THEN Tpl(<<"cat", a[2], <<"lit", b>>>>)
                            ELSE StrV(PyStr(a)[2] \o b[2])
                      [] e[1] = "add" ->
                            IF IsNum(a) /\ IsNum(b) THEN IntV(Num(a) + Num(b))
                            ELSE IF a[1] = "str" /\ b[1] = "str"
                            THEN StrV(a[2] \o b[2])
                            ELSE Err("TypeError")
                      [] e[1] = "lt" ->
                            IF IsNum(a) /\ IsNum(b) THEN BoolV(Num(a) < Num(b))
                            ELSE Err("TypeError")

\* _render, lines 157-160: the rendered text read back as a literal; an
\* exception of render() is passed on
RenderLiteral(rendered) ==
    IF IsErr(rendered) THEN rendered ELSE LiteralEval(PyStr(rendered))

\* ReadParser._render
Render(template_like, ctx, g) ==
    IF template_like[1] # "tpl" THEN template_like
    ELSE RenderLiteral(Eval(template_like[2], ctx, g))

\* convert_type(rendered_value); a failure is re-raised as ValueError
Convert(convert_type, v) ==
    IF convert_type = "int" THEN ToInt(v) ELSE BoolV(Truthy(v))

\* ReadParser._get_param; convert_type is "int", "bool" or "none", default is
\* NoneV when the caller gives none
\* _get_param, lines 187-194: the conversion of the rendered value
ConvertParam(rendered_value, convert_type) ==
    IF IsErr(rendered_value) THEN rendered_value
    ELSE IF convert_type # "none" /\ rendered_value # NoneV
    THEN Convert(convert_type, rendered_value)
    ELSE rendered_value

GetParam(step, param_name, ctx, g, default, convert_type) ==
    IF param_name \notin DOMAIN step /\ default = NoneV THEN Err("KeyError")
    ELSE ConvertParam(Render(IF param_name \in DOMAIN step THEN step[param_name]
                             ELSE default, ctx, g),
                      convert_type)

-----------------------------------------------------------------------------
(* The step handlers.  A handler's result is what it returned ("true" or   *)
(* "false") or that it raised ("raise", with the exception's kind), and    *)
(* the assignments context[key] = value it made before that, in order.     *)

Ret(writes, ok) ==
    [writes |-> writes, res |-> IF ok THEN "true" ELSE "false", exc |-> ""]
Raise(writes, kind) == [writes |-> writes, res |-> "raise", exc |-> kind]

\* The first error among the values vs, NoneV when there is none
FirstErr(vs) ==
    IF \E k \in 1..Len(vs) : IsErr(vs[k])
    THEN vs[CHOOSE k \in 1..Len(vs) :
                IsErr(vs[k]) /\ \A j \in 1..(k - 1) : ~IsErr(vs[j])]
    ELSE NoneV

\* step.get("must_pass", True)
MustPass(step) == IF "must_pass" \in DOMAIN step THEN step["must_pass"] ELSE TRUE

\* ApplyWrites with context.setdefault(key, value) for context[key] = value: a
\* key that is already there keeps its value
RECURSIVE ApplyWritesKeepFirst(_, _)
ApplyWritesKeepFirst(ctx, writes) ==
    IF writes = <<>> THEN ctx
    ELSE LET w == Head(writes) IN
         ApplyWritesKeepFirst([k \in DOMAIN ctx \cup {w[1]} |->
                                  IF k \in DOMAIN ctx THEN ctx[k] ELSE w[2]],
                              Tail(writes))

\* context after the assignments `writes`
RECURSIVE ApplyWrites(_, _)
ApplyWrites(ctx, writes) ==
    IF writes = <<>> THEN ctx
    ELSE LET w == Head(writes) IN
         ApplyWrites([k \in DOMAIN ctx \cup {w[1]} |->
                          IF k = w[1] THEN w[2] ELSE ctx[k]], Tail(writes))

\* The fields of the step are rendered, e is their first error if any
RaiseFirst(e, rest) == IF e # NoneV THEN Raise(<<>>, e[2]) ELSE rest

\* HAMMING_FUNCS[hamming_fn_name] is defined
Registered(hamming_fn_name) ==
    hamming_fn_name[1] = "name" /\ hamming_fn_name[2] \in HAMMING_FUNCS

\* MatchStore that returns False for every miss, must-pass or not
MatchStoreStrict(step, offset) ==
    IF IsErr(offset) THEN Raise(<<>>, offset[2])
    ELSE IF offset = IntV(-1) THEN Ret(<<>>, FALSE)
    ELSE IF "store_pos_as" \notin DOMAIN step THEN Raise(<<>>, "KeyError")
    ELSE Ret(<<<<step["store_pos_as"], offset>>>>, TRUE)

\* _process_match, lines 342-348
MatchStore(step, offset) ==
    IF IsErr(offset) THEN Raise(<<>>, offset[2])
    ELSE IF offset = IntV(-1) /\ MustPass(step) THEN Ret(<<>>, FALSE)
    ELSE IF "store_pos_as" \notin DOMAIN step THEN Raise(<<>>, "KeyError")
    ELSE IF offset = IntV(-1) THEN Ret(<<<<step["store_pos_as"], NoneV>>>>, TRUE)
    ELSE Ret(<<<<step["store_pos_as"], offset>>>>, TRUE)

\* _process_match, lines 331-348, with the fields as rendered
MatchWith(step, seq, ref, max_wobble, max_hamming, base_offset, hamming_fn_name) ==
    RaiseFirst(FirstErr(<<ref, max_wobble, max_hamming, base_offset,
                          hamming_fn_name>>),
        IF ~Registered(hamming_fn_name) THEN Raise(<<>>, "KeyError")
        ELSE MatchStore(step, WobbleMatch(seq, ref, max_wobble, max_hamming,
                                          base_offset, hamming_fn_name[2])))

\* ReadParser._process_match
ProcessMatch(step, seq, ctx, g) ==
    MatchWith(step, seq,
              GetParam(step, "ref", ctx, g, NoneV, "none"),
              GetParam(step, "max_wobble", ctx, g, NoneV, "int"),
              GetParam(step, "max_mismatch", ctx, g, NoneV, "int"),
              GetParam(step, "base_offset", ctx, g, IntV(0), "int"),
              GetParam(step, "hamming_fn", ctx, g, NoneV, "none"))

\* "<id>_ok", the default of store_match_as
OkKey(id) == id \o "_ok"

\* _process_extract, lines 355-365, for the fragment frag
ExtractStore(step, frag, wl) ==
    IF "whitelist" \notin DOMAIN step
    THEN Ret(<<<<step["store_seq_as"], StrV(frag)>>>>, TRUE)
    \* the default f"{step['id']}_ok" is evaluated even when store_match_as
    \* is given
    ELSE IF "id" \notin DOMAIN step
    THEN Raise(<<<<step["store_seq_as"], StrV(frag)>>>>, "KeyError")
    ELSE Ret(<<<<step["store_seq_as"], StrV(frag)>>,
               <<IF "store_match_as" \in DOMAIN step THEN step["store_match_as"]
                 ELSE OkKey(step["id"]),
                 BoolV(step["whitelist"] \in DOMAIN wl
                       /\ frag \in wl[step["whitelist"]])>>>>,
             step["whitelist"] \in DOMAIN wl /\ frag \in wl[step["whitelist"]])

\* _process_extract, lines 354-365, with the fields as rendered
ExtractWith(step, seq, start, length, wl) ==
    RaiseFirst(FirstErr(<<start, length>>),
        IF start = NoneV \/ length = NoneV THEN Raise(<<>>, "TypeError")
        ELSE IF "store_seq_as" \notin DOMAIN step THEN Raise(<<>>, "KeyError")
        ELSE ExtractStore(step, PySlice(seq, start[2], start[2] + length[2]), wl))

\* ReadParser._process_extract
ProcessExtract(step, seq, ctx, g, wl) ==
    ExtractWith(step, seq,
                GetParam(step, "start", ctx, g, NoneV, "int"),
                GetParam(step, "length", ctx, g, NoneV, "int"), wl)

\* _process_hamming_test, lines 378-383, for the distance found
HammingStore(step, distance, max_mismatch) ==
    \* the default step["id"] is evaluated even when store_result_as is given
    IF "id" \notin DOMAIN step THEN Raise(<<>>, "KeyError")
    ELSE Ret(<<<<IF "store_result_as" \in DOMAIN step THEN step["store_result_as"]
                 ELSE step["id"],
                 BoolV(distance <= max_mismatch)>>>>,
             (distance <= max_mismatch) \/ ~MustPass(step))

\* _process_hamming_test, lines 374-383, with the fields as rendered
HammingTestWith(step, seq, ref, start, length, max_mismatch, hamming_fn_name) ==
    RaiseFirst(FirstErr(<<ref, start, length, max_mismatch, hamming_fn_name>>),
        IF ~Registered(hamming_fn_name) THEN Raise(<<>>, "KeyError")
        ELSE IF start = NoneV \/ length = NoneV \/ ref[1] # "str"
                \/ max_mismatch = NoneV
        THEN Raise(<<>>, "TypeError")
        ELSE HammingStore(step,
                 HammingFn(hamming_fn_name[2], ref[2],
                           PySlice(seq, start[2], start[2] + length[2])),
                 max_mismatch[2]))

\* ReadParser._process_hamming_test
ProcessHammingTest(step, seq, ctx, g) ==
    HammingTestWith(step, seq,
                    GetParam(step, "ref", ctx, g, NoneV, "none"),
                    GetParam(step, "start", ctx, g, NoneV, "int"),
                    GetParam(step, "length", ctx, g, NoneV, "int"),
                    GetParam(step, "max_mismatch", ctx, g, NoneV, "int"),
                    GetParam(step, "hamming_fn", ctx, g, NoneV, "none"))

\* _process_test, lines 398-400, for the rendered expression
TestStore(step, result_) ==
    IF IsErr(result_) THEN Raise(<<>>, result_[2])
    \* the default step["id"] is evaluated even when store_result_as is given
    ELSE IF "id" \notin DOMAIN step THEN Raise(<<>>, "KeyError")
    ELSE Ret(<<<<IF "store_result_as" \in DOMAIN step THEN step["store_result_as"]
                 ELSE step["id"],
                 result_>>>>,
             Truthy(result_))

\* ReadParser._process_test
ProcessTest(step, seq, ctx, g) ==
    TestStore(step, GetParam(step, "expression", ctx, g, NoneV, "none"))

\* _process_compute, lines 299-302, after the write w1
ComputePassIf(w1, condition) ==
    IF IsErr(condition) THEN Raise(w1, condition[2])
    ELSE Ret(w1, Truthy(condition))

\* _process_compute, lines 296-302, for the rendered expression
ComputeStore(step, value, ctx, g) ==
    IF IsErr(value) THEN Raise(<<>>, value[2])
    ELSE IF "store_as" \notin DOMAIN step THEN Raise(<<>>, "KeyError")
    ELSE IF "pass_if" \notin DOMAIN step
    THEN Ret(<<<<step["store_as"], value>>>>, TRUE)
    ELSE ComputePassIf(<<<<step["store_as"], value>>>>,
             GetParam(step, "pass_if",
                      ApplyWrites(ctx, <<<<step["store_as"], value>>>>), g,
                      NoneV, "bool"))

\* ReadParser._process_compute
ProcessCompute(step, seq, ctx, g) ==
    ComputeStore(step, GetParam(step, "expression", ctx, g, NoneV, "none"), ctx, g)

-----------------------------------------------------------------------------
(* Regular expressions.  A compiled pattern over literal bases is its      *)
(* alternatives in order, <<"rx", <<[s |-> text, end |-> followed by "$"], *)
(* ...>>>>.                                                                *)

\* CompileTail without the "$" after the group of prefixes
CompileTailUnanchored(sequence, min_tail) ==
    IF IsErr(min_tail) \/ min_tail = NoneV \/ sequence[1] # "str" THEN NoneV
    ELSE IF min_tail[2] > Len(sequence[2]) THEN NoneV
    ELSE <<"rx", <<[s |-> sequence[2], end |-> FALSE]>> \o
                 [k \in 1..(Len(sequence[2]) + 1 - min_tail[2]) |->
                     [s |-> PySlice(sequence[2], 0, min_tail[2] + k - 1),
                      end |-> FALSE]]>>

\* The pattern _load_regex_patterns compiles for one entry of regex_patterns:
\* NoneV when the entry is logged and skipped, Err when construction aborts
CompileTail(sequence, min_tail) ==
    IF IsErr(min_tail) \/ min_tail = NoneV \/ sequence[1] # "str" THEN NoneV
    ELSE IF min_tail[2] > Len(sequence[2]) THEN NoneV
    ELSE <<"rx", <<[s |-> sequence[2], end |-> FALSE]>> \o
                 [k \in 1..(Len(sequence[2]) + 1 - min_tail[2]) |->
                     [s |-> PySlice(sequence[2], 0, min_tail[2] + k - 1),
                      end |-> TRUE]]>>

CompileTyped(pattern_dict, g, pattern_type, sequence) ==
    IF FirstErr(<<pattern_type, sequence>>) # NoneV
    THEN FirstErr(<<pattern_type, sequence>>)
    ELSE IF pattern_type = NameV("full")
    THEN IF sequence[1] # "str" THEN NoneV
         ELSE <<"rx", <<[s |-> sequence[2], end |-> FALSE]>>>>
    ELSE IF pattern_type = NameV("full_or_tail")
    THEN CompileTail(sequence,
                     GetParam(pattern_dict, "min_tail", g, g, IntV(4), "int"))
    ELSE NoneV

CompilePattern(pattern_dict, g) ==
    CompileTyped(pattern_dict, g,
                 GetParam(pattern_dict, "type", g, g, NameV("full"), "none"),
                 GetParam(pattern_dict, "sequence", g, g, NoneV, "none"))

\* Alternative alt matches seq at (0-based) position i
AltMatches(alt, seq, i) ==
    /\ i + Len(alt.s) <= Len(seq)
    /\ SubSeq(seq, i + 1, i + Len(alt.s)) = alt.s
    /\ alt.end => i + Len(alt.s) = Len(seq)

\* The alternatives rx match seq somewhere: the leftmost position, and there
\* the first alternative that matches
FirstMatch(rx, seq, hits) ==
    IF hits = {} THEN NoneV
    ELSE LET i == CHOOSE x \in hits : \A y \in hits : x <= y IN
         <<"match", i,
           rx[CHOOSE x \in 1..Len(rx) :
                 /\ AltMatches(rx[x], seq, i)
                 /\ \A y \in 1..(x - 1) : ~AltMatches(rx[y], seq, i)].s>>

\* rx.search(seq): <<"match", m.start(), m.group()>>, NoneV when none
RegexSearch(compiled, seq) ==
    FirstMatch(compiled[2], seq,
               {i \in 0..Len(seq) :
                   \E a \in 1..Len(compiled[2]) : AltMatches(compiled[2][a], seq, i)})

\* ReadParser._process_regex_search
\* _process_regex_search, lines 314-322, for the match object m
RegexStore(step, m) ==
    IF "store_pos_as" \notin DOMAIN step THEN Raise(<<>>, "KeyError")
    ELSE IF m # NoneV
    THEN Ret(<<<<step["store_pos_as"], IntV(m[2])>>>> \o
             (IF "store_match_as" \in DOMAIN step
              THEN <<<<step["store_match_as"], StrV(m[3])>>>>
              ELSE <<>>), TRUE)
    ELSE Ret(<<<<step["store_pos_as"],
                IF "default" \in DOMAIN step THEN step["default"] ELSE NoneV>>>>,
             FALSE)

ProcessRegexSearch(step, seq, ctx, rxs) ==
    IF "pattern" \notin DOMAIN step THEN Raise(<<>>, "KeyError")
    ELSE IF step["pattern"] \notin DOMAIN rxs THEN Raise(<<>>, "KeyError")
    ELSE IF rxs[step["pattern"]] = NoneV THEN Raise(<<>>, "KeyError")
    ELSE RegexStore(step, RegexSearch(rxs[step["pattern"]], seq))

-----------------------------------------------------------------------------
(* Construction *)

\* The step fields that hold Python values; the other fields (id, op, read,
\* must_pass, pattern, whitelist and the store_* keys) hold plain names
ValueFields == {"ref", "max_wobble", "max_mismatch", "base_offset", "hamming_fn",
                "start", "length", "expression", "pass_if", "default"}

\* The fields that hold a name (a TLA+ string): a context key, an id, a table
\* entry.  Such a field may hold the text of a template, too.
NameFields == {"id", "op", "pattern", "whitelist", "store_pos_as", "store_seq_as",
               "store_match_as", "store_result_as", "store_as"}

\* The texts with "{{" that occur in name fields, and ENV.parse of each
TemplateTexts == {"{{ params.POS_KEY }}"}

TemplateExpr(text) ==
    CASE text = "{{ params.POS_KEY }}" -> <<"param", "POS_KEY">>

\* isinstance(v, str) and "{{" in v, for field k of step
IsTemplate(step, k) ==
    \/ k \in ValueFields /\ step[k][1] = "tpl"
    \/ k \in NameFields /\ step[k] \in TemplateTexts

\* The template in field k
FieldTemplate(step, k) ==
    IF k \in ValueFields THEN step[k] ELSE Tpl(TemplateExpr(step[k]))

\* Field k of step is a template that uses no variable but the globals
Freezable(step, k) ==
    /\ IsTemplate(step, k)
    /\ Undeclared(FieldTemplate(step, k)[2]) \subseteq {globals_namespace}

\* step[k] = v for the rendered value v: a name field holds the str as a name
Frozen(k, v) == IF k \in ValueFields THEN v ELSE v[2]

\* ReadParser._freeze_constants, for one step
FreezeStep(step, g) ==
    [k \in DOMAIN step |->
        IF Freezable(step, k)
        THEN Frozen(k, Render(FieldTemplate(step, k), [x \in {} |-> NoneV], g))
        ELSE step[k]]

\* ReadParser._freeze_constants
FreezeConstants(ss, g) == [i \in 1..Len(ss) |-> FreezeStep(ss[i], g)]

\* ReadParser._load_regex_patterns
LoadRegexPatterns(regex_configs, g) ==
    [n \in DOMAIN regex_configs |-> CompilePattern(regex_configs[n], g)]

\* step.get("id", f"step_{i}") of reset_parse_log; i is the 1-based index here
LogStepId(ss, i) ==
    IF "id" \in DOMAIN ss[i] THEN ss[i]["id"] ELSE "step_" \o ToString(i - 1)

\* ReadParser.reset_parse_log
ResetParseLog(ss) ==
    [total_reads |-> 0, successful_reads |-> 0, failed_reads |-> 0,
     failures_by_step |-> [id \in {LogStepId(ss, i) : i \in 1..Len(ss)} |-> 0]]

\* ReadParser.__init__ raises for this specification
ConstructionAborts(cfg) ==
    \/ \E n \in DOMAIN cfg.regex : IsErr(CompilePattern(cfg.regex[n], cfg.globals))
    \/ \E i \in 1..Len(cfg.pipeline) : \E k \in DOMAIN cfg.pipeline[i] :
          /\ Freezable(cfg.pipeline[i], k)
          /\ IsErr(Render(FieldTemplate(cfg.pipeline[i], k), [x \in {} |-> NoneV],
                          cfg.globals))

-----------------------------------------------------------------------------
(* ReadParser.parse *)

\* The context parse starts from
SeedContext(pr) ==
    [k \in {"read_id", "len_seq1", "len_seq2"} |->
        CASE k = "read_id" -> NameV(pr.name)
          [] k = "len_seq1" -> IntV(Len(pr.seq1))
          [] k = "len_seq2" -> IntV(Len(pr.seq2))]

\* step.get("id", "unknown") of parse
StepId(step) == IF "id" \in DOMAIN step THEN step["id"] ELSE "unknown"

\* op.capitalize()
Capitalize(op) ==
    CASE op = "match" -> "Match"
      [] op = "extract" -> "Extract"
      [] op = "hamming_test" -> "Hamming_test"
      [] op = "test" -> "Test"
      [] op = "regex_search" -> "Regex_search"
      [] op = "compute" -> "Compute"
      [] op = "frobnicate" -> "Frobnicate"

\* The dict parse returns for a failed pair; what is <<"failed">> or
\* <<"error", e>>, e the kind of the exception in "operation error: {e}"
FailOutcome(name, step_id, op, what) ==
    [k \in {"read_id", "status", "failed_step", "message"} |->
        CASE k = "read_id" -> NameV(name)
          [] k = "status" -> NameV("fail")
          [] k = "failed_step" -> NameV(step_id)
          [] k = "message" -> <<"msg", Capitalize(op), "operation", what>>]

\* Lines 229-235: the step's read cannot be selected, or it has no op
HeaderRaises(step) ==
    \/ "read" \in DOMAIN step /\ step["read"] \notin {1, 2}
    \/ "op" \notin DOMAIN step

\* The if/elif chain of parse: the handler of the step's op
Dispatch(step, seq, ctx, g, wl, rxs) ==
    CASE step["op"] = "match" -> ProcessMatch(step, seq, ctx, g)
      [] step["op"] = "extract" -> ProcessExtract(step, seq, ctx, g, wl)
      [] step["op"] = "hamming_test" -> ProcessHammingTest(step, seq, ctx, g)
      [] step["op"] = "test" -> ProcessTest(step, seq, ctx, g)
      [] step["op"] = "regex_search" -> ProcessRegexSearch(step, seq, ctx, rxs)
      [] step["op"] = "compute" -> ProcessCompute(step, seq, ctx, g)
      [] OTHER -> Raise(<<>>, "NotImplementedError")

\* parse_log["failures_by_step"][step_id] += 1, for a step_id in the dict
CountFailure(log, step_id) ==
    [log EXCEPT !.failures_by_step[step_id] = @ + 1]

\* parse_log["failed_reads"] += 1
CountFailedRead(log) == [log EXCEPT !.failed_reads = @ + 1]

\* Lines 256-280: what parse does with the handler's result r.  ctl is "next"
\* (go on with the next step), "return" (out is the dict returned) or "raise"
\* (out is the exception that leaves parse).
AfterStep(step, r, log, name) ==
    LET step_id == StepId(step)
        op == step["op"]
        known == step_id \in DOMAIN log.failures_by_step
    IN IF r.res = "true" THEN [log |-> log, ctl |-> "next", out |-> NoneV]
       ELSE IF r.res = "false" /\ known
       THEN IF MustPass(step)
            THEN [log |-> CountFailedRead(CountFailure(log, step_id)),
                  ctl |-> "return",
                  out |-> <<"return", FailOutcome(name, step_id, op, <<"failed">>)>>]
            ELSE [log |-> CountFailure(log, step_id), ctl |-> "next", out |-> NoneV]
       ELSE \* except Exception as e: raised by the handler, or the KeyError of
            \* failures_by_step[step_id] at line 258
            LET e == IF r.res = "raise" THEN r.exc ELSE "KeyError" IN
            IF ~MustPass(step) THEN [log |-> log, ctl |-> "next", out |-> NoneV]
            ELSE IF known
            THEN [log |-> CountFailure(CountFailedRead(log), step_id),
                  ctl |-> "return",
                  out |-> <<"return",
                            FailOutcome(name, step_id, op, <<"error", e>>)>>]
            ELSE [log |-> CountFailedRead(log), ctl |-> "raise",
                  out |-> <<"raise", "KeyError">>]

-----------------------------------------------------------------------------
(* The specifications and the read pairs the parsers are run on *)

GGT == <<"G", "G", "T">>
AAG == <<"A", "A", "G">>
TTC == <<"T", "T", "C">>

Plus(a, b) == <<"add", a, b>>
Var(k) == <<"var", k>>
Lit(v) == <<"lit", v>>

\* A must-pass match, then a templated extract checked against a whitelist
CfgTagged ==
    [pipeline |-> <<
        [id |-> "match_s1", read |-> 1, op |-> "match", ref |-> StrV(GGT),
         hamming_fn |-> NameV("hamming"), max_wobble |-> IntV(2),
         max_mismatch |-> IntV(0), store_pos_as |-> "s1_start"],
        [id |-> "extract_tag", read |-> 1, op |-> "extract",
         start |-> Tpl(Plus(Var("s1_start"), Lit(IntV(3)))),
         length |-> Tpl(<<"param", "TAG_LEN">>),
         store_seq_as |-> "tag", whitelist |-> "bc"] >>,
     globals |-> [TAG_LEN |-> IntV(2)],
     whitelists |-> [bc |-> {<<"A", "C">>, <<"T", "C">>}],
     regex |-> [x \in {} |-> NoneV]]

\* Steps declared without an id: an optional regex_search and a must-pass match
CfgNoId ==
    [pipeline |-> <<
        [read |-> 2, op |-> "regex_search", pattern |-> "tail",
         store_pos_as |-> "p", must_pass |-> FALSE],
        [read |-> 1, op |-> "match", ref |-> StrV(GGT),
         hamming_fn |-> NameV("hamming"), max_wobble |-> IntV(2),
         max_mismatch |-> IntV(0), store_pos_as |-> "s1_start"],
        [id |-> "p_in_read", op |-> "test",
         expression |-> Tpl(<<"lt", Var("p"), Var("len_seq2")>>)] >>,
     globals |-> [TAIL_MIN |-> IntV(2)],
     whitelists |-> [x \in {} |-> {}],
     regex |-> [tail |-> [type |-> NameV("full_or_tail"),
                          sequence |-> StrV(<<"T", "T", "C", "A">>),
                          min_tail |-> Tpl(Var("TAIL_MIN"))]]]

\* Optional steps with ids, as in tests/test_parser_hamming.py
CfgOptional ==
    [pipeline |-> <<
        [id |-> "opt_match", read |-> 2, op |-> "match", ref |-> StrV(AAG),
         hamming_fn |-> NameV("hammingAG"), max_wobble |-> IntV(1),
         max_mismatch |-> IntV(0), store_pos_as |-> "s2_start",
         must_pass |-> FALSE],
        [id |-> "check_flank", read |-> 2, op |-> "hamming_test",
         ref |-> StrV(TTC), start |-> Tpl(Plus(Var("s2_start"), Lit(IntV(3)))),
         length |-> IntV(3), hamming_fn |-> NameV("hammingTC"),
         max_mismatch |-> IntV(1), must_pass |-> FALSE],
        [id |-> "flank_ok", op |-> "test",
         expression |-> Tpl(<<"eq", Var("check_flank"), Lit(BoolV(TRUE))>>),
         must_pass |-> FALSE] >>,
     globals |-> [x \in {} |-> NoneV],
     whitelists |-> [x \in {} |-> {}],
     regex |-> [x \in {} |-> NoneV]]

\* compute steps: the second overwrites the key of the first
CfgCompute ==
    [pipeline |-> <<
        [id |-> "c1", op |-> "compute",
         expression |-> Tpl(Plus(Var("len_seq1"), <<"param", "K">>)),
         store_as |-> "x"],
        [id |-> "c2", op |-> "compute",
         expression |-> Tpl(Plus(Var("x"), Lit(IntV(1)))), store_as |-> "x",
         pass_if |-> Tpl(<<"lt", Var("x"), Lit(IntV(8))>>)] >>,
     globals |-> [K |-> IntV(1)],
     whitelists |-> [x \in {} |-> {}],
     regex |-> [x \in {} |-> NoneV]]

\* An unknown op, and a step that has no op
CfgBadOp ==
    [pipeline |-> <<
        [id |-> "u", op |-> "frobnicate", must_pass |-> FALSE],
        [id |-> "short", op |-> "test",
         expression |-> Tpl(<<"lt", Var("len_seq1"), Lit(IntV(5))>>)],
        [id |-> "x", read |-> 1] >>,
     globals |-> [x \in {} |-> NoneV],
     whitelists |-> [x \in {} |-> {}],
     regex |-> [x \in {} |-> NoneV]]

\* An optional match from base_offset 1, an extract that runs past the end of
\* read 2, an optional whitelisted extract and a test of a position
CfgOffset ==
    [pipeline |-> <<
        [id |-> "m", read |-> 1, op |-> "match", ref |-> StrV(<<"G", "T", "A">>),
         hamming_fn |-> NameV("hamming"), max_wobble |-> IntV(1),
         max_mismatch |-> Tpl(<<"param", "MM">>), base_offset |-> IntV(1),
         store_pos_as |-> "pos", must_pass |-> FALSE],
        [id |-> "frag", read |-> 2, op |-> "extract", start |-> IntV(4),
         length |-> IntV(3), store_seq_as |-> "frag"],
        [id |-> "head", read |-> 1, op |-> "extract", start |-> IntV(0),
         length |-> IntV(2), store_seq_as |-> "head", whitelist |-> "known",
         store_match_as |-> "head_known", must_pass |-> FALSE],
        [id |-> "has_pos", op |-> "test", expression |-> Tpl(Var("pos")),
         must_pass |-> FALSE] >>,
     globals |-> [MM |-> IntV(0)],
     whitelists |-> [known |-> {<<"G", "G">>, <<"A", "C">>}],
     regex |-> [x \in {} |-> NoneV]]

\* A whitelisted extract declared without an id, with its own store_match_as
CfgNoIdExtract ==
    [pipeline |-> <<
        [read |-> 1, op |-> "extract", start |-> IntV(0), length |-> IntV(2),
         store_seq_as |-> "head", whitelist |-> "known",
         store_match_as |-> "head_known", must_pass |-> FALSE],
        [id |-> "long", op |-> "test",
         expression |-> Tpl(<<"lt", Lit(IntV(4)), Var("len_seq1")>>)] >>,
     globals |-> [x \in {} |-> NoneV],
     whitelists |-> [known |-> {<<"G", "G">>, <<"A", "C">>}],
     regex |-> [x \in {} |-> NoneV]]

\* A match whose ref and context key are templates over the globals only
CfgFrozenKey ==
    [pipeline |-> <<
        [id |-> "m", read |-> 1, op |-> "match", ref |-> Tpl(<<"param", "REF">>),
         hamming_fn |-> NameV("hamming"), max_wobble |-> IntV(2),
         max_mismatch |-> IntV(0), store_pos_as |-> "{{ params.POS_KEY }}"],
        [id |-> "near", op |-> "test",
         expression |-> Tpl(<<"lt", Var("pos"), Lit(IntV(1))>>),
         must_pass |-> FALSE] >>,
     globals |-> [REF |-> StrV(GGT), POS_KEY |-> NameV("pos")],
     whitelists |-> [x \in {} |-> {}],
     regex |-> [x \in {} |-> NoneV]]

\* A pipeline that sets the keys read_clip_and_write clips and tags by
CfgClip ==
    [pipeline |-> <<
        [id |-> "m", read |-> 1, op |-> "match", ref |-> StrV(GGT),
         hamming_fn |-> NameV("hamming"), max_wobble |-> IntV(2),
         max_mismatch |-> IntV(0), store_pos_as |-> "start_r1"],
        [id |-> "bc", read |-> 2, op |-> "extract", start |-> IntV(0),
         length |-> IntV(2), store_seq_as |-> "read_tag"],
        [id |-> "end", op |-> "compute",
         expression |-> Tpl(Plus(Var("start_r1"), Lit(IntV(3)))),
         store_as |-> "end_r1"] >>,
     globals |-> [x \in {} |-> NoneV],
     whitelists |-> [x \in {} |-> {}],
     regex |-> [x \in {} |-> NoneV]]

\* hamming_test steps whose window may run past the end of the read, or is
\* declared shorter than ref
CfgShortWindow ==
    [pipeline |-> <<
        [id |-> "flank", read |-> 2, op |-> "hamming_test", ref |-> StrV(TTC),
         start |-> IntV(4), length |-> IntV(3), hamming_fn |-> NameV("hamming"),
         max_mismatch |-> IntV(1), must_pass |-> FALSE],
        [id |-> "lead", read |-> 1, op |-> "hamming_test", ref |-> StrV(GGT),
         start |-> IntV(1), length |-> IntV(2), hamming_fn |-> NameV("hamming"),
         max_mismatch |-> IntV(0)] >>,
     globals |-> [x \in {} |-> NoneV],
     whitelists |-> [x \in {} |-> {}],
     regex |-> [x \in {} |-> NoneV]]

Configs == {CfgTagged, CfgNoId, CfgOptional, CfgCompute, CfgBadOp, CfgOffset,
            CfgNoIdExtract, CfgFrozenKey, CfgClip, CfgShortWindow}

Quals(n) == [k \in 1..n |-> "I"]

Pairs ==
    { [name |-> "r1", seq1 |-> <<"N", "G", "G", "T", "A", "C">>, qual1 |-> Quals(6),
       seq2 |-> <<"A", "A", "G", "T", "T", "C">>, qual2 |-> Quals(6)],
      [name |-> "r2", seq1 |-> <<"G", "G", "T", "C", "C">>, qual1 |-> Quals(5),
       seq2 |-> <<"A", "G", "G", "T", "A", "A">>, qual2 |-> Quals(6)],
      [name |-> "r3", seq1 |-> <<"A", "C", "G", "T">>, qual1 |-> Quals(4),
       seq2 |-> <<"C", "C", "C">>, qual2 |-> Quals(3)] }

NoPair == [name |-> "", seq1 |-> <<>>, qual1 |-> <<>>, seq2 |-> <<>>, qual2 |-> <<>>]
NoResult == [pair |-> NoPair, out |-> NoneV]

\* No function has been called directly
NoCall == [fn |-> "none", args |-> <<>>, ret |-> NoneV]

-----------------------------------------------------------------------------
(* The state machine *)

\* Two parsers constructed (ReadParser.__init__) from one specification
\* ReadParser.__init__ has run on the specification cfg, for each parser, and
\* no parse call was made
BuiltFrom(cfg) ==
    /\ globals = cfg.globals
    /\ whitelist_sets = cfg.whitelists
    /\ regex_patterns = LoadRegexPatterns(cfg.regex, cfg.globals)
    /\ steps = FreezeConstants(cfg.pipeline, cfg.globals)
    /\ parse_log = [p \in Parsers |-> ResetParseLog(cfg.pipeline)]
    /\ active = 0
    /\ pc = "idle"
    /\ pair = NoPair
    /\ idx = 0
    /\ context = [x \in {} |-> NoneV]
    /\ trace = <<>>
    /\ log0 = ResetParseLog(cfg.pipeline)
    /\ result = [p \in Parsers |-> NoResult]

\* No ReadParser is constructed; g is the globals table of one under
\* construction, if any
NotBuilt(g) ==
    /\ steps = <<>>
    /\ globals = g
    /\ whitelist_sets = [x \in {} |-> {}]
    /\ regex_patterns = [x \in {} |-> NoneV]
    /\ parse_log = [p \in Parsers |-> ResetParseLog(<<>>)]
    /\ active = 0
    /\ pc = "idle"
    /\ pair = NoPair
    /\ idx = 0
    /\ context = [x \in {} |-> NoneV]
    /\ trace = <<>>
    /\ log0 = ResetParseLog(<<>>)
    /\ result = [p \in Parsers |-> NoResult]

\* read_clip_and_write is not running, nor _resolve_globals, and no thread
\* shares a parser
NoClip == [status |-> "none"]
NoResolving == [status |-> "none"]
NoEvaluators == [t \in {} |-> NoneV]

Init ==
    \E cfg \in Configs :
        /\ ~ConstructionAborts(cfg)
        /\ BuiltFrom(cfg)
        /\ call = NoCall
        /\ clip = NoClip
        /\ resolving = NoResolving
        /\ evaluators = NoEvaluators

\* ParseBegin with the context kept from the call before and updated with the
\* seed keys, not built anew
ParseBeginStale(p, pr) ==
    /\ pc = "idle"
    /\ parse_log[p].total_reads < MaxReads
    /\ active' = p
    /\ pc' = "loop"
    /\ pair' = pr
    /\ context' = [k \in DOMAIN context \cup DOMAIN SeedContext(pr) |->
                      IF k \in DOMAIN SeedContext(pr) THEN SeedContext(pr)[k]
                      ELSE context[k]]
    /\ parse_log' = [parse_log EXCEPT ![p].total_reads = @ + 1]
    /\ log0' = parse_log[p]
    /\ idx' = 1
    /\ trace' = <<>>
    /\ UNCHANGED <<steps, globals, whitelist_sets, regex_patterns, result, call>>

\* parse, lines 219-225: parser p is called with the pair pr
ParseBegin(p, pr) ==
    /\ pc = "idle"
    /\ parse_log[p].total_reads < MaxReads
    /\ active' = p
    /\ pc' = "loop"
    /\ pair' = pr
    /\ context' = SeedContext(pr)
    /\ parse_log' = [parse_log EXCEPT ![p].total_reads = @ + 1]
    /\ log0' = parse_log[p]
    /\ idx' = 1
    /\ trace' = <<>>
    /\ UNCHANGED <<steps, globals, whitelist_sets, regex_patterns, result, call>>

\* The position of the step after position i
NextStep(i) == i + 1

\* reads[step["read"]], "" for a step without read
SelectRead(step, pr) ==
    IF "read" \notin DOMAIN step THEN <<>>
    ELSE IF step["read"] = 1 THEN pr.seq1 ELSE pr.seq2

\* Lines 229-235 raise: the exception leaves parse
ExecHeaderRaise ==
    /\ pc' = "idle"
    /\ result' = [result EXCEPT ![active] =
                     [pair |-> pair, out |-> <<"raise", "KeyError">>]]
    /\ trace' = Append(trace, [i |-> idx, res |-> "header", exc |-> "KeyError",
                               writes |-> <<>>, ctl |-> "raise", ctx |-> context])
    /\ UNCHANGED <<parse_log, context, idx>>

\* The state after the handler's result r was handled as a says
ExecFinish(r, a) ==
    /\ context' = ApplyWrites(context, r.writes)
    /\ parse_log' = [parse_log EXCEPT ![active] = a.log]
    /\ trace' = Append(trace, [i |-> idx, res |-> r.res, exc |-> r.exc,
                               writes |-> r.writes, ctl |-> a.ctl, ctx |-> context])
    /\ IF a.ctl = "next"
       THEN /\ idx' = NextStep(idx)
            /\ UNCHANGED <<pc, result>>
       ELSE /\ pc' = "idle"
            /\ result' = [result EXCEPT ![active] = [pair |-> pair, out |-> a.out]]
            /\ UNCHANGED idx

\* Lines 256-280 applied to the handler's result r
ExecHandled(step, r) ==
    ExecFinish(r, AfterStep(step, r, parse_log[active], pair.name))

\* ExecStep with a _get_param that writes the rendered value back into the
\* step (step[param_name] = rendered_value)
ExecStepCaching ==
    /\ pc = "loop"
    /\ idx <= Len(steps)
    /\ IF HeaderRaises(steps[idx])
       THEN ExecHeaderRaise
       ELSE ExecHandled(steps[idx],
                        Dispatch(steps[idx], SelectRead(steps[idx], pair), context,
                                 globals, whitelist_sets, regex_patterns))
    /\ steps' = [steps EXCEPT ![idx] =
                    [k \in DOMAIN @ |->
                        IF k \in ValueFields /\ ~IsErr(Render(@[k], context, globals))
                        THEN Render(@[k], context, globals)
                        ELSE @[k]]]
    /\ UNCHANGED <<globals, whitelist_sets, regex_patterns, active, pair, log0,
                   call>>

\* parse, lines 227-280: one turn of `for step in self.steps`
ExecStep ==
    /\ pc = "loop"
    /\ idx <= Len(steps)
    /\ IF HeaderRaises(steps[idx])
       THEN ExecHeaderRaise
       ELSE ExecHandled(steps[idx],
                        Dispatch(steps[idx], SelectRead(steps[idx], pair), context,
                                 globals, whitelist_sets, regex_patterns))
    /\ UNCHANGED <<steps, globals, whitelist_sets, regex_patterns, active, pair,
                   log0, call>>

\* parse, lines 282-285: the loop is over, the pair is a success
ParseReturn ==
    /\ pc = "loop"
    /\ idx > Len(steps)
    /\ context' = ApplyWrites(context, <<<<"status", NameV("ok")>>>>)
    /\ parse_log' = [parse_log EXCEPT ![active].successful_reads = @ + 1]
    /\ result' = [result EXCEPT ![active] =
                     [pair |-> pair, out |-> <<"return", context'>>]]
    /\ pc' = "idle"
    /\ UNCHANGED <<steps, globals, whitelist_sets, regex_patterns, active, pair,
                   idx, trace, log0, call>>

\* parse as a function: the outcome of parse for the steps ss from position i
\* on, with context ctx and parse log `log`, on the pair of the running call
RECURSIVE ParseFrom(_, _, _, _)
ParseFrom(ss, i, ctx, log) ==
    IF i > Len(ss) THEN <<"return", ApplyWrites(ctx, <<<<"status", NameV("ok")>>>>)>>
    ELSE IF HeaderRaises(ss[i]) THEN <<"raise", "KeyError">>
    ELSE LET r == Dispatch(ss[i], SelectRead(ss[i], pair), ctx, globals,
                           whitelist_sets, regex_patterns)
             a == AfterStep(ss[i], r, log, pair.name)
         IN IF a.ctl = "next"
            THEN ParseFrom(ss, NextStep(i), ApplyWrites(ctx, r.writes), a.log)
            ELSE a.out

\* What no parse call changes
aside == <<clip, resolving, evaluators>>

Next ==
    \/ \E p \in Parsers : \E pr \in Pairs : ParseBegin(p, pr) /\ UNCHANGED aside
    \/ ExecStep /\ UNCHANGED aside
    \/ ParseReturn /\ UNCHANGED aside

Spec == Init /\ [][Next]_vars

-----------------------------------------------------------------------------
(* Direct calls of the functions of logic.py and registry.py *)

Bases == {"A", "C", "G", "T"}

\* The strings over alphabet of length at most n
Strings(alphabet, n) == UNION {[1..k -> alphabet] : k \in 0..n}

\* No parser is constructed; one function is called, once
InitLogic ==
    /\ NotBuilt([x \in {} |-> NoneV])
    /\ call = NoCall
    /\ clip = NoClip
    /\ resolving = NoResolving
    /\ evaluators = NoEvaluators

\* wobble_match(test, target, max_wobble, max_hamming, base_offset, HAMMING_FUNCS[fn])
CallWobbleMatch ==
    /\ call = NoCall
    /\ \E test \in Strings({"A", "G", "T"}, MaxLen) :
       \E target \in Strings({"A", "G", "T"}, MaxLen - 1) :
       \E max_wobble \in 0..(MaxLen - 1) :
       \E max_hamming \in {0, 1} :
       \E base_offset \in {0, 1} :
       \E fn \in {"hamming", "hammingAG"} :
          call' = [fn |-> "wobble_match",
                   args |-> <<test, target, max_wobble, max_hamming, base_offset, fn>>,
                   ret |-> WobbleMatch(test, StrV(target), IntV(max_wobble),
                                       IntV(max_hamming), IntV(base_offset), fn)]
    /\ UNCHANGED <<steps, globals, whitelist_sets, regex_patterns, parse_log, active,
                   pc, pair, idx, context, trace, log0, result, clip, resolving,
                   evaluators>>

\* hamming(x, y), hamming35(x, y, f, t) and the two registered variants
CallHamming ==
    /\ call = NoCall
    /\ \E x \in Strings(Bases, MaxLen - 1) :
       \E y \in Strings(Bases, MaxLen - 1) :
       \E f \in Bases : \E t \in Bases :
          call' = [fn |-> "hamming",
                   args |-> <<x, y, f, t>>,
                   ret |-> [hamming |-> Hamming(x, y),
                            hamming35 |-> Hamming35(x, y, f, t),
                            hammingTC |-> HammingFn("hammingTC", x, y),
                            hammingAG |-> HammingFn("hammingAG", x, y)]]
    /\ UNCHANGED <<steps, globals, whitelist_sets, regex_patterns, parse_log, active,
                   pc, pair, idx, context, trace, log0, result, clip, resolving,
                   evaluators>>

\* The full_or_tail pattern of sequence s and min_tail m is compiled
\* (_load_regex_patterns) and a regex_search step is run with it on a read
CallRegexSearch ==
    /\ call = NoCall
    /\ \E s \in Strings({"A", "C", "G"}, MaxLen - 1) \ {<<>>} :
       \E m \in 0..Len(s) :
       \E read \in Strings({"A", "C", "G"}, MaxLen) :
          call' = [fn |-> "regex_search",
                   args |-> <<s, m, read>>,
                   ret |-> ProcessRegexSearch(
                               [id |-> "find", op |-> "regex_search",
                                pattern |-> "tail", store_pos_as |-> "p"],
                               read, [x \in {} |-> NoneV],
                               LoadRegexPatterns(
                                   [tail |-> [type |-> NameV("full_or_tail"),
                                              sequence |-> StrV(s),
                                              min_tail |-> IntV(m)]],
                                   [x \in {} |-> NoneV]))]
    /\ UNCHANGED <<steps, globals, whitelist_sets, regex_patterns, parse_log, active,
                   pc, pair, idx, context, trace, log0, result, clip, resolving,
                   evaluators>>

NextLogic ==
    \/ CallWobbleMatch
    \/ CallHamming
    \/ CallRegexSearch

SpecLogic == InitLogic /\ [][NextLogic]_vars

-----------------------------------------------------------------------------
(* read_clip_and_write(reader, parser, writer, ...) on parser 1 *)

\* The defaults the function declares, and those of a caller that clips and tags
DeclaredDefaults ==
    [start_r1 |-> IntV(0), end_r1 |-> IntV(-1), start_r2 |-> IntV(0),
     end_r2 |-> IntV(-1), read_tag |-> StrV(<<>>)]

ClipDefaults ==
    {DeclaredDefaults,
     [start_r1 |-> IntV(1), end_r1 |-> IntV(4), start_r2 |-> IntV(2),
      end_r2 |-> NoneV, read_tag |-> StrV(<<"x">>)]}

\* The iterators: the sequences of at most MaxReads pairs
Readers == UNION {[1..n -> Pairs] : n \in 0..MaxReads}

\* ctx.get(key, default)
CtxGet(ctx, key, default) == IF key \in DOMAIN ctx THEN ctx[key] ELSE default

\* not ctx or ctx.get("status") != "ok"
ClipSkips(ctx) ==
    DOMAIN ctx = {} \/ CtxGet(ctx, "status", NoneV) # NameV("ok")

\* The end left as it is: -1 is then the index of the last character
ClipEndRaw(e, seq) == e

\* len(seq) if (e is None or e == -1) else e
ClipEnd(e, seq) ==
    IF e = NoneV \/ (IsNum(e) /\ Num(e) = -1) THEN IntV(Len(seq)) ELSE e

\* A slice index is an int or None
IsIndex(v) == v = NoneV \/ IsNum(v)

\* seq[s:e] for the indices s and e
ClipSlice(seq, s, e) ==
    PySlice(seq, IF s = NoneV THEN 0 ELSE Num(s),
                 IF e = NoneV THEN Len(seq) ELSE Num(e))

\* f"{read_id}/1_{tag}" if tag else f"{read_id}/1", as the pieces of the text
NewId(read_id, tag) ==
    IF Truthy(tag) THEN <<read_id, "/1", "_", PyStr(tag)[2]>>
    ELSE <<read_id, "/1">>

\* Lines 452-470: the 5-tuple handed to the writer for the pair pr whose
\* outcome is ctx, with the defaults d
ClipRecord(pr, ctx, d) ==
    [id |-> NewId(pr.name, CtxGet(ctx, "read_tag", d.read_tag)),
     seq1 |-> ClipSlice(pr.seq1, CtxGet(ctx, "start_r1", d.start_r1),
                        ClipEnd(CtxGet(ctx, "end_r1", d.end_r1), pr.seq1)),
     qual1 |-> ClipSlice(pr.qual1, CtxGet(ctx, "start_r1", d.start_r1),
                         ClipEnd(CtxGet(ctx, "end_r1", d.end_r1), pr.seq1)),
     seq2 |-> ClipSlice(pr.seq2, CtxGet(ctx, "start_r2", d.start_r2),
                        ClipEnd(CtxGet(ctx, "end_r2", d.end_r2), pr.seq2)),
     qual2 |-> ClipSlice(pr.qual2, CtxGet(ctx, "start_r2", d.start_r2),
                         ClipEnd(CtxGet(ctx, "end_r2", d.end_r2), pr.seq2))]

\* Lines 462-465 raise TypeError: a bound is neither an int nor None
ClipRaises(pr, ctx, d) ==
    \E k \in {"start_r1", "end_r1", "start_r2", "end_r2"} :
        ~IsIndex(CtxGet(ctx, k, d[k]))

\* read_clip_and_write is called with a reader and defaults on parser 1 of a
\* specification.  pos is the position of the pair of this turn of the loop.
\* History: calls, the positions parse was called for; outs, the status of
\* each outcome returned; from, the position and the outcome behind each
\* record written.
InitClip ==
    \E cfg \in Configs :
        /\ ~ConstructionAborts(cfg)
        /\ BuiltFrom(cfg)
        /\ call = NoCall
        /\ resolving = NoResolving
        /\ evaluators = NoEvaluators
        /\ \E reader \in Readers : \E d \in ClipDefaults :
              clip = [status |-> "run", reader |-> reader, defaults |-> d,
                      pos |-> 1, called |-> FALSE, written |-> <<>>,
                      calls |-> <<>>, outs |-> <<>>, from |-> <<>>]

\* Lines 447-448: the next pair of the reader is handed to parser.parse
ClipCall ==
    /\ clip.status = "run"
    /\ ~clip.called
    /\ clip.pos <= Len(clip.reader)
    /\ ParseBegin(1, clip.reader[clip.pos])
    /\ clip' = [clip EXCEPT !.called = TRUE, !.calls = Append(@, clip.pos)]
    /\ UNCHANGED <<resolving, evaluators>>

\* The state of the run after a turn that wrote rec (<<>>: nothing written)
\* for the outcome ctx
ClipNextTurn(rec, ctx) ==
    [clip EXCEPT !.pos = @ + 1, !.called = FALSE,
                 !.outs = Append(@, CtxGet(ctx, "status", NoneV)),
                 !.written = @ \o rec,
                 !.from = IF rec = <<>> THEN @
                          ELSE Append(@, [pos |-> clip.pos, ctx |-> ctx])]

\* Lines 449-470: parse has left with `out`; the rest of the turn of the loop
ClipAfterParse(out) ==
    IF out[1] = "raise" THEN [clip EXCEPT !.status = "raised"]
    ELSE IF ClipSkips(out[2]) THEN ClipNextTurn(<<>>, out[2])
    ELSE IF ClipRaises(clip.reader[clip.pos], out[2], clip.defaults)
    THEN [clip EXCEPT !.status = "raised",
                      !.outs = Append(@, CtxGet(out[2], "status", NoneV))]
    ELSE ClipNextTurn(<<ClipRecord(clip.reader[clip.pos], out[2], clip.defaults)>>,
                      out[2])

ClipTurn ==
    /\ clip.status = "run"
    /\ clip.called
    /\ pc = "idle"
    /\ clip' = ClipAfterParse(result[1].out)
    /\ UNCHANGED <<steps, globals, whitelist_sets, regex_patterns, parse_log, active,
                   pc, pair, idx, context, trace, log0, result, call, resolving,
                   evaluators>>

\* The reader is exhausted: read_clip_and_write returns
ClipReturn ==
    /\ clip.status = "run"
    /\ ~clip.called
    /\ clip.pos > Len(clip.reader)
    /\ clip' = [clip EXCEPT !.status = "done"]
    /\ UNCHANGED <<steps, globals, whitelist_sets, regex_patterns, parse_log, active,
                   pc, pair, idx, context, trace, log0, result, call, resolving,
                   evaluators>>

NextClip ==
    \/ ClipCall
    \/ ExecStep /\ UNCHANGED aside
    \/ ParseReturn /\ UNCHANGED aside
    \/ ClipTurn
    \/ ClipReturn

SpecClip == InitClip /\ [][NextClip]_vars

-----------------------------------------------------------------------------
(* ReadParser.__init__ with templates in the globals: _resolve_globals *)

\* Globals tables: a chain of references, a sum over a reference, a global
\* that references itself, two globals that reference each other, a template
\* that appends text to itself, a sum over itself, a table without the global
\* the step needs
GlobalsTables ==
    { [A |-> Tpl(<<"param", "B">>), B |-> Tpl(<<"param", "C">>), C |-> IntV(2)],
      [A |-> Tpl(Plus(<<"param", "B">>, Lit(IntV(1)))),
       B |-> Tpl(<<"param", "C">>), C |-> IntV(2)],
      [A |-> Tpl(<<"param", "A">>), C |-> IntV(2)],
      [A |-> Tpl(<<"param", "B">>), B |-> Tpl(<<"param", "A">>)],
      [A |-> Tpl(<<"cat", <<"param", "A">>, Lit(StrV(<<"x">>))>>), C |-> IntV(2)],
      [A |-> Tpl(Plus(<<"param", "A">>, Lit(IntV(1)))), C |-> IntV(2)],
      [B |-> Tpl(<<"param", "C">>), C |-> IntV(2)] }

\* The specification with the globals g: its one step has a field frozen
\* from them
GlobalsCfg(g) ==
    [pipeline |-> << [id |-> "head", read |-> 1, op |-> "extract",
                      start |-> IntV(0), length |-> Tpl(<<"param", "A">>),
                      store_seq_as |-> "head"] >>,
     globals |-> g,
     whitelists |-> [x \in {} |-> {}],
     regex |-> [x \in {} |-> NoneV]]

\* The orders in which a dict may hold the keys S
Orders(S) ==
    {o \in [1..Cardinality(S) -> S] : \A i, j \in DOMAIN o : o[i] = o[j] => i = j}

\* __init__, lines 36-49: self.globals is the copy of globals_cfg and
\* _resolve_globals is entered.  order is list(self.globals.items()), pos the
\* position of the for loop in it, passes the number of the pass of the while
\* loop.  History: table0, the table given.
InitGlobals ==
    \E g \in GlobalsTables : \E order \in Orders(DOMAIN g) :
        /\ NotBuilt(g)
        /\ call = NoCall
        /\ clip = NoClip
        /\ evaluators = NoEvaluators
        /\ resolving = [status |-> "run", order |-> order, pos |-> 1,
                        changed |-> FALSE, passes |-> 1, table0 |-> g]

\* _resolve_globals, lines 139-142: one turn of the for loop, `rendered` being
\* what _render returned or raised
ResolveRendered(key, rendered) ==
    IF IsErr(rendered)
    THEN /\ resolving' = [resolving EXCEPT !.status = "raised"]
         /\ UNCHANGED globals
    ELSE IF ~PyEq(rendered, globals[key])
    THEN /\ globals' = [globals EXCEPT ![key] = rendered]
         /\ resolving' = [resolving EXCEPT !.pos = @ + 1, !.changed = TRUE]
    ELSE /\ resolving' = [resolving EXCEPT !.pos = @ + 1]
         /\ UNCHANGED globals

ResolveKey ==
    /\ resolving.status = "run"
    /\ resolving.pos <= Len(resolving.order)
    /\ ResolveRendered(resolving.order[resolving.pos],
                       Render(globals[resolving.order[resolving.pos]],
                              [x \in {} |-> NoneV], globals))
    /\ UNCHANGED <<steps, whitelist_sets, regex_patterns, parse_log, active, pc,
                   pair, idx, context, trace, log0, result, call, clip, evaluators>>

\* _resolve_globals, lines 136-138: the for loop is over; `while changed`
\* starts the next pass or ends
ResolvePass ==
    /\ resolving.status = "run"
    /\ resolving.pos > Len(resolving.order)
    /\ resolving.changed => resolving.passes < MaxPasses
    /\ resolving' = IF resolving.changed
                    THEN [resolving EXCEPT !.pos = 1, !.changed = FALSE,
                                           !.passes = @ + 1]
                    ELSE [resolving EXCEPT !.status = "done"]
    /\ UNCHANGED <<steps, globals, whitelist_sets, regex_patterns, parse_log, active,
                   pc, pair, idx, context, trace, log0, result, call, clip,
                   evaluators>>

\* __init__, lines 52-61, for the specification cfg with the resolved globals
ConstructFrom(cfg) ==
    IF ConstructionAborts(cfg)
    THEN /\ resolving' = [resolving EXCEPT !.status = "aborted"]
         /\ UNCHANGED <<steps, whitelist_sets, regex_patterns, parse_log, log0>>
    ELSE /\ resolving' = [resolving EXCEPT !.status = "built"]
         /\ whitelist_sets' = cfg.whitelists
         /\ regex_patterns' = LoadRegexPatterns(cfg.regex, cfg.globals)
         /\ steps' = FreezeConstants(cfg.pipeline, cfg.globals)
         /\ parse_log' = [p \in Parsers |-> ResetParseLog(cfg.pipeline)]
         /\ log0' = ResetParseLog(cfg.pipeline)

ConstructRest ==
    /\ resolving.status = "done"
    /\ ConstructFrom(GlobalsCfg(globals))
    /\ UNCHANGED <<globals, active, pc, pair, idx, context, trace, result, call,
                   clip, evaluators>>

NextGlobals ==
    \/ ResolveKey
    \/ ResolvePass
    \/ ConstructRest

SpecGlobals == InitGlobals /\ [][NextGlobals]_vars

-----------------------------------------------------------------------------
(* Two threads call parse on parser 1 at the same time.  The context of a  *)
(* call is a local of parse; self.parse_log is shared, and                  *)
(* `self.parse_log[k] += 1` reads the counter, adds, and stores the sum:    *)
(* another thread may run between the read and the store.                   *)

Threads == {1, 2}

\* The counter c of the parse log: <<"total_reads">>, <<"successful_reads">>,
\* <<"failed_reads">> or <<"failures_by_step", step_id>>
CounterOf(log, c) ==
    IF c[1] = "failures_by_step" THEN log.failures_by_step[c[2]] ELSE log[c[1]]

\* log with v stored as the counter c
WithCounter(log, c, v) ==
    IF c[1] = "failures_by_step" THEN [log EXCEPT !.failures_by_step[c[2]] = v]
    ELSE [log EXCEPT ![c[1]] = v]

\* Lines 256-280: the counters parse increments for the handler's result r,
\* in the order of the code, a being AfterStep for r
StepUpdates(step, r, log, a) ==
    LET by_step == IF a.log.failures_by_step # log.failures_by_step
                   THEN <<<<"failures_by_step", StepId(step)>>>> ELSE <<>>
        failed == IF a.log.failed_reads # log.failed_reads
                  THEN <<<<"failed_reads">>>> ELSE <<>>
    IN IF r.res = "false" THEN by_step \o failed ELSE failed \o by_step

\* The counters that parse increments from step i on, for the pair pr with the
\* context ctx; of log, only the step ids it knows matter
RECURSIVE UpdatesFrom(_, _, _, _, _)
UpdatesFrom(ss, i, ctx, log, pr) ==
    IF i > Len(ss) THEN <<<<"successful_reads">>>>
    ELSE IF HeaderRaises(ss[i]) THEN <<>>
    ELSE LET r == Dispatch(ss[i], SelectRead(ss[i], pr), ctx, globals,
                           whitelist_sets, regex_patterns)
             a == AfterStep(ss[i], r, log, pr.name)
         IN StepUpdates(ss[i], r, log, a) \o
            (IF a.ctl = "next"
             THEN UpdatesFrom(ss, NextStep(i), ApplyWrites(ctx, r.writes), log, pr)
             ELSE <<>>)

\* A thread that has not called parse
NotCalled == [phase |-> "idle", pair |-> NoPair, todo |-> <<>>, tmp |-> 0]

\* One parser is constructed and shared by the threads
InitShared ==
    \E cfg \in Configs :
        /\ ~ConstructionAborts(cfg)
        /\ BuiltFrom(cfg)
        /\ call = NoCall
        /\ clip = NoClip
        /\ resolving = NoResolving
        /\ evaluators = [t \in Threads |-> NotCalled]

\* Thread t calls parse on the pair pr: todo is the `+= 1` statements the call
\* will execute, total_reads first (line 225)
EvalCall(t, pr) ==
    /\ evaluators[t].phase = "idle"
    /\ evaluators' = [evaluators EXCEPT ![t] =
          [phase |-> "load", pair |-> pr, tmp |-> 0,
           todo |-> <<<<"total_reads">>>> \o
                    UpdatesFrom(steps, 1, SeedContext(pr), parse_log[1], pr)]]
    /\ UNCHANGED <<steps, globals, whitelist_sets, regex_patterns, parse_log, active,
                   pc, pair, idx, context, trace, log0, result, call, clip,
                   resolving>>

\* Thread t reads the counter of its next `+= 1`
EvalLoad(t) ==
    /\ evaluators[t].phase = "load"
    /\ evaluators' = [evaluators EXCEPT ![t].phase = "store",
                         ![t].tmp = CounterOf(parse_log[1], Head(evaluators[t].todo))]
    /\ UNCHANGED <<steps, globals, whitelist_sets, regex_patterns, parse_log, active,
                   pc, pair, idx, context, trace, log0, result, call, clip,
                   resolving>>

\* Thread t stores the sum; after its last `+= 1` parse returns
EvalStore(t) ==
    /\ evaluators[t].phase = "store"
    /\ parse_log' = [parse_log EXCEPT ![1] =
                        WithCounter(@, Head(evaluators[t].todo), evaluators[t].tmp + 1)]
    /\ evaluators' = [evaluators EXCEPT
                         ![t].todo = Tail(@),
                         ![t].phase = IF Len(evaluators[t].todo) = 1 THEN "done"
                                      ELSE "load"]
    /\ UNCHANGED <<steps, globals, whitelist_sets, regex_patterns, active, pc, pair,
                   idx, context, trace, log0, result, call, clip, resolving>>

NextShared ==
    \/ \E t \in Threads : \E pr \in Pairs : EvalCall(t, pr)
    \/ \E t \in Threads : EvalLoad(t)
    \/ \E t \in Threads : EvalStore(t)

SpecShared == InitShared /\ [][NextShared]_vars

-----------------------------------------------------------------------------
(* Properties *)

\* A parse call has been made and none is running
Idle == pc = "idle" /\ active # 0

RECURSIVE SumOver(_, _)
SumOver(f, S) ==
    IF S = {} THEN 0
    ELSE LET x == CHOOSE y \in S : TRUE IN f[x] + SumOver(f, S \ {x})

\* sum(failures_by_step.values())
SumFailures(log) == SumOver(log.failures_by_step, DOMAIN log.failures_by_step)

\* "ok" or "fail" for a returned dict, "raise" for an exception that left parse
Status(out) == IF out[1] = "return" THEN out[2]["status"][2] ELSE out[1]

\* The id the specification gives the step at position i: the declared id, or
\* step_<index> for a step declared without one
DeclaredId(i) ==
    IF "id" \in DOMAIN steps[i] THEN steps[i]["id"] ELSE "step_" \o ToString(i - 1)

\* How many failures the running (or last) call has added under id
CountedNow(id) ==
    IF id \in DOMAIN parse_log[active].failures_by_step
    THEN parse_log[active].failures_by_step[id] - log0.failures_by_step[id]
    ELSE 0

\* The running (or last) call has returned the failure outcome of step i
ReturnedFailureOf(i) ==
    /\ pc = "idle"
    /\ result[active].pair = pair
    /\ result[active].out[1] = "return"
    /\ DOMAIN result[active].out[2] = {"read_id", "status", "failed_step", "message"}
    /\ result[active].out[2]["read_id"] = NameV(pair.name)
    /\ result[active].out[2]["status"] = NameV("fail")
    /\ result[active].out[2]["failed_step"] = NameV(DeclaredId(i))
    /\ result[active].out[2]["message"][2] = Capitalize(steps[i]["op"])

\* C1: after every parse call, on every parser, total_reads equals
\* successful_reads + failed_reads.
C1_TotalIsSuccessPlusFailed ==
    pc = "idle" =>
        \A p \in Parsers :
            parse_log[p].total_reads =
                parse_log[p].successful_reads + parse_log[p].failed_reads

\* C2: a parse call raises total_reads by 1 and exactly one of successful_reads
\* and failed_reads by 1: successful_reads iff the outcome returned has status
\* "ok", failed_reads iff it has status "fail".
C2_OneCounterPerCall ==
    Idle =>
        /\ parse_log[active].total_reads = log0.total_reads + 1
        /\ \/ /\ Status(result[active].out) = "ok"
              /\ parse_log[active].successful_reads = log0.successful_reads + 1
              /\ parse_log[active].failed_reads = log0.failed_reads
           \/ /\ Status(result[active].out) = "fail"
              /\ parse_log[active].successful_reads = log0.successful_reads
              /\ parse_log[active].failed_reads = log0.failed_reads + 1

\* C3: after every parse call, the sum of failures_by_step over all step ids is
\* at least failed_reads.
C3_FailuresCoverFailedReads ==
    pc = "idle" =>
        \A p \in Parsers : SumFailures(parse_log[p]) >= parse_log[p].failed_reads

\* C4: when a must-pass step returns false, parse returns at once the failure
\* outcome naming that step and its capitalised op, no later step is executed,
\* and failures_by_step of that step and failed_reads each go up by exactly 1.
C4_MustPassFalseFailsThePair ==
    \A k \in 1..Len(trace) :
        (trace[k].res = "false" /\ MustPass(steps[trace[k].i])) =>
            /\ k = Len(trace)
            /\ ReturnedFailureOf(trace[k].i)
            /\ result[active].out[2]["message"][4] = <<"failed">>
            /\ CountedNow(DeclaredId(trace[k].i)) = 1
            /\ parse_log[active].failed_reads = log0.failed_reads + 1

\* C5: when an optional step returns false, failures_by_step of that step goes
\* up by exactly 1, failed_reads is not changed by that step and the next step
\* is evaluated; a pair in which only optional steps fail ends with status "ok".
C5_OptionalFalseIsCountedOnly ==
    /\ \A k \in 1..Len(trace) :
          (trace[k].res = "false" /\ ~MustPass(steps[trace[k].i])) =>
              /\ CountedNow(DeclaredId(trace[k].i)) = 1
              /\ trace[k].ctl = "next"
              /\ (k = Len(trace) /\ pc = "loop") =>
                     parse_log[active].failed_reads = log0.failed_reads
    /\ (Idle /\ \A k \in 1..Len(trace) :
                    trace[k].res = "true" \/ ~MustPass(steps[trace[k].i]))
          => Status(result[active].out) = "ok"

\* C6: an exception raised inside a step handler is handled like a false
\* return: failures_by_step of the step goes up by exactly 1, for a must-pass
\* and for an optional step alike; a must-pass step ends the pair with a failure
\* outcome, an optional step lets evaluation continue.
C6_HandlerErrorIsAStepFailure ==
    \A k \in 1..Len(trace) :
        trace[k].res = "raise" =>
            /\ CountedNow(DeclaredId(trace[k].i)) = 1
            /\ MustPass(steps[trace[k].i]) =>
                  (k = Len(trace) /\ ReturnedFailureOf(trace[k].i))
            /\ ~MustPass(steps[trace[k].i]) => trace[k].ctl = "next"

\* C7: whatever the step and the pair, an error raised while a step is handled
\* becomes a step failure and parse returns an outcome: no exception leaves
\* parse.
C7_NoExceptionLeavesParse ==
    \A p \in Parsers : result[p].out[1] # "raise"

\* C8: a step declared without an id at index i is step_<i> everywhere: the
\* parse log has the entry failures_by_step["step_<i>"], a failure of the step
\* is counted under it, and a failure outcome it causes has
\* failed_step = "step_<i>".
C8_SynthesizedIdEverywhere ==
    \A k \in 1..Len(trace) :
        ("id" \notin DOMAIN steps[trace[k].i] /\ trace[k].res = "false") =>
            /\ DeclaredId(trace[k].i) \in DOMAIN parse_log[active].failures_by_step
            /\ CountedNow(DeclaredId(trace[k].i)) = 1
            /\ MustPass(steps[trace[k].i]) => ReturnedFailureOf(trace[k].i)

\* The assignments to the context the steps of the running call have made, in
\* order
RECURSIVE WritesOf(_)
WritesOf(tr) == IF tr = <<>> THEN <<>> ELSE Head(tr).writes \o WritesOf(Tail(tr))

\* The value the pair gives seed key k
SeedValue(k) ==
    CASE k = "read_id" -> NameV(pair.name)
      [] k = "len_seq1" -> IntV(Len(pair.seq1))
      [] k = "len_seq2" -> IntV(Len(pair.seq2))

\* ctx holds the seed keys and the keys of the assignments ws, each key with the
\* value of the last assignment to it
HoldsExactly(ctx, ws) ==
    /\ DOMAIN ctx = {"read_id", "len_seq1", "len_seq2"} \cup
                    {ws[j][1] : j \in 1..Len(ws)}
    /\ \A k \in DOMAIN ctx :
          IF \E j \in 1..Len(ws) : ws[j][1] = k
          THEN \E j \in 1..Len(ws) :
                  /\ ws[j][1] = k
                  /\ \A l \in (j + 1)..Len(ws) : ws[l][1] # k
                  /\ ctx[k] = ws[j][2]
          ELSE ctx[k] = SeedValue(k)

\* C9: within one parse call the steps are executed in declared order, each at
\* most once, and the step about to be executed sees a context that holds
\* exactly the seed keys and the keys written by the steps before it in this
\* call, each with the value last written to it.
C9_StepsInOrderOnOwnContext ==
    /\ \A k \in 1..Len(trace) : trace[k].i = k
    /\ pc = "loop" => idx = Len(trace) + 1
    /\ pc = "loop" => HoldsExactly(context, WritesOf(trace))

\* C9 witness: two steps of one call have written different values to one key,
\* and the step after them sees the later value
C9_Witness ==
    /\ pc = "loop"
    /\ Len(trace) >= 2
    /\ \E j \in 1..Len(WritesOf(trace)) : \E l \in 1..Len(WritesOf(trace)) :
          /\ j < l
          /\ WritesOf(trace)[j][1] = WritesOf(trace)[l][1]
          /\ WritesOf(trace)[j][2] # WritesOf(trace)[l][2]
          /\ context[WritesOf(trace)[l][1]] = WritesOf(trace)[l][2]

\* C10: the outcome of parse depends only on the compiled pipeline and the
\* pair: two parsers built from one specification return the same outcome for
\* the same pair whatever they parsed before, and a call starts from the seed
\* of its own pair, with no key of an earlier pair.
C10_OutcomeDependsOnPairOnly ==
    /\ (result[1].out # NoneV /\ result[2].out # NoneV
            /\ result[1].pair = result[2].pair)
          => result[1].out = result[2].out
    /\ (pc = "loop" /\ trace = <<>>) => HoldsExactly(context, <<>>)

\* C10 witness: both parsers have last parsed the same pair, after different
\* earlier pairs, so with different parse logs
C10_Witness ==
    /\ Idle
    /\ result[1].out # NoneV
    /\ result[2].out # NoneV
    /\ result[1].pair = result[2].pair
    /\ parse_log[1] # parse_log[2]
    /\ parse_log[1].total_reads # parse_log[2].total_reads

\* C11: parse leaves the step list, the globals table, the whitelist sets and
\* the compiled regex table unchanged, whatever the outcome; of the parsers'
\* state it changes only the parse log of the parser it was called on.
C11_ParseChangesOnlyTheParseLog ==
    [][/\ UNCHANGED <<steps, globals, whitelist_sets, regex_patterns>>
       /\ \A p \in Parsers : p # active' => parse_log'[p] = parse_log[p]]_vars

\* C11 witness: a parser has parsed two pairs, one ended "ok" and changed the
\* parse log, and the pipeline has a field that is rendered on every read
C11_Witness ==
    /\ Idle
    /\ parse_log[active].total_reads = 2
    /\ parse_log[active].successful_reads >= 1
    /\ Status(result[active].out) = "ok"
    /\ \E i \in 1..Len(steps) : \E k \in DOMAIN steps[i] :
          k \in ValueFields /\ steps[i][k][1] = "tpl"

\* test[base_offset + r : base_offset + r + |target|] of a wobble_match call
WindowAt(r) ==
    PySlice(call.args[1], call.args[5] + r, call.args[5] + r + Len(call.args[2]))

\* Relative offset r qualifies in a wobble_match call: the windows at 0..r have
\* the full length and the window at r is within max_hamming of the target
Qualifies(r) ==
    /\ \A q \in 0..r : Len(WindowAt(q)) = Len(call.args[2])
    /\ HammingFn(call.args[6], call.args[2], WindowAt(r)) <= call.args[4]

\* C12: for max_wobble >= 0 and base_offset >= 0, wobble_match returns the
\* least relative offset r in 0..max_wobble such that the windows at 0..r all
\* have the full length of the target and the window at r has at most
\* max_hamming mismatches, and -1 when there is none.
C12_WobbleMatchLeastQualifyingOffset ==
    call.fn = "wobble_match" =>
        IF \E r \in 0..call.args[3] : Qualifies(r)
        THEN /\ call.ret[1] = "int"
             /\ call.ret[2] \in 0..call.args[3]
             /\ Qualifies(call.ret[2])
             /\ \A q \in 0..(call.ret[2] - 1) : ~Qualifies(q)
        ELSE call.ret = IntV(-1)

\* C12 witness: the offset returned is not the best one: a larger offset of
\* the wobble range has a full window with fewer mismatches
C12_Witness ==
    /\ call.fn = "wobble_match"
    /\ call.ret[2] >= 0
    /\ \E q \in (call.ret[2] + 1)..call.args[3] :
          /\ Len(WindowAt(q)) = Len(call.args[2])
          /\ HammingFn(call.args[6], call.args[2], WindowAt(q))
                < HammingFn(call.args[6], call.args[2], WindowAt(call.ret[2]))

\* The positions where x and y of a hamming call differ
Mismatches == {i \in 1..Len(call.args[1]) : call.args[1][i] # call.args[2][i]}

\* The positions where x has letter f and y has letter t
Conversions(f, t) ==
    {i \in 1..Len(call.args[1]) : call.args[1][i] = f /\ call.args[2][i] = t}

\* C13 as stated: for all equal-length x, y and all letters f, t,
\* hamming35(x, y, f, t) <= hamming(x, y), with equality if and only if no
\* position i has (x[i], y[i]) = (f, t); hammingTC and hammingAG count the
\* mismatching positions that are not a T -> C, resp. A -> G, conversion.
C13_Hamming35AtMostHamming ==
    (call.fn = "hamming" /\ Len(call.args[1]) = Len(call.args[2])) =>
        /\ call.ret.hamming35 <= call.ret.hamming
        /\ call.ret.hamming35 = call.ret.hamming
              <=> Conversions(call.args[3], call.args[4]) = {}
        /\ call.ret.hammingTC = Cardinality(Mismatches \ Conversions("T", "C"))
        /\ call.ret.hammingAG = Cardinality(Mismatches \ Conversions("A", "G"))

\* C13 amended: the same for letters f # t; for f = t no mismatch is a
\* conversion and hamming35(x, y, f, f) = hamming(x, y), whether or not a
\* position has x[i] = y[i] = f.
C13_Hamming35AtMostHammingDistinctLetters ==
    (call.fn = "hamming" /\ Len(call.args[1]) = Len(call.args[2])) =>
        /\ call.ret.hamming = Cardinality(Mismatches)
        /\ call.ret.hamming35 <= call.ret.hamming
        /\ call.args[3] # call.args[4] =>
              (call.ret.hamming35 = call.ret.hamming
                  <=> Conversions(call.args[3], call.args[4]) = {})
        /\ call.args[3] = call.args[4] => call.ret.hamming35 = call.ret.hamming
        /\ call.ret.hammingTC = Cardinality(Mismatches \ Conversions("T", "C"))
        /\ call.ret.hammingAG = Cardinality(Mismatches \ Conversions("A", "G"))

\* C13 witness: x and y differ in a T -> C conversion and in another position,
\* and hamming35 is called with (T, C)
C13_Witness ==
    /\ call.fn = "hamming"
    /\ Len(call.args[1]) = Len(call.args[2])
    /\ call.args[3] = "T"
    /\ call.args[4] = "C"
    /\ Conversions("T", "C") # {}
    /\ Mismatches \ Conversions("T", "C") # {}
    /\ call.ret.hamming35 < call.ret.hamming

\* The k-th step executed by the running (or last) call was an `op` step and
\* its handler returned
Returned(k, op) ==
    /\ trace[k].res \in {"true", "false"}
    /\ steps[trace[k].i]["op"] = op

\* Field param_name of that step as _get_param gives it to the handler
Param(k, param_name, default, convert_type) ==
    GetParam(steps[trace[k].i], param_name, trace[k].ctx, globals, default,
             convert_type)

\* The read that step works on
ReadOf(k) == SelectRead(steps[trace[k].i], pair)

\* wobble_match on the fields of the match step executed k-th
OffsetOf(k) ==
    WobbleMatch(ReadOf(k), Param(k, "ref", NoneV, "none"),
                Param(k, "max_wobble", NoneV, "int"),
                Param(k, "max_mismatch", NoneV, "int"),
                Param(k, "base_offset", IntV(0), "int"),
                Param(k, "hamming_fn", NoneV, "none")[2])

\* The window of the read at offset r from base_offset is within max_mismatch
\* of ref
WindowWithin(k, r) ==
    LET ref == Param(k, "ref", NoneV, "none")[2]
        at == Param(k, "base_offset", IntV(0), "int")[2] + r
    IN /\ at + Len(ref) <= Len(ReadOf(k))
       /\ HammingFn(Param(k, "hamming_fn", NoneV, "none")[2], ref,
                    SubSeq(ReadOf(k), at + 1, at + Len(ref)))
             <= Param(k, "max_mismatch", NoneV, "int")[2]

\* C14: a match step writes under store_pos_as the offset returned by
\* wobble_match, relative to base_offset, and succeeds when a window qualifies;
\* on a miss a must-pass step returns false and writes nothing, an optional
\* step writes null under store_pos_as and returns true, so the miss is not
\* counted in failures_by_step.
C14_MatchStoresRelativeOffset ==
    \A k \in 1..Len(trace) :
        Returned(k, "match") =>
            IF OffsetOf(k) # IntV(-1)
            THEN /\ trace[k].res = "true"
                 /\ trace[k].writes =
                        <<<<steps[trace[k].i]["store_pos_as"], OffsetOf(k)>>>>
                 /\ WindowWithin(k, OffsetOf(k)[2])
            ELSE IF MustPass(steps[trace[k].i])
            THEN /\ trace[k].res = "false"
                 /\ trace[k].writes = <<>>
            ELSE /\ trace[k].res = "true"
                 /\ trace[k].writes = <<<<steps[trace[k].i]["store_pos_as"], NoneV>>>>
                 /\ trace[k].ctl = "next"
                 /\ CountedNow(DeclaredId(trace[k].i)) = 0

\* C14 witness: parser 1 has matched at base_offset + 1 (position 2 of the
\* read) and stored 1; parser 2 has missed in an optional match, stored null,
\* counted nothing and ended "ok"
C14_Witness ==
    /\ Idle
    /\ steps[1]["op"] = "match"
    /\ "base_offset" \in DOMAIN steps[1]
    /\ steps[1]["base_offset"] = IntV(1)
    /\ ~MustPass(steps[1])
    /\ result[1].out[1] = "return"
    /\ result[2].out[1] = "return"
    /\ steps[1]["store_pos_as"] \in DOMAIN result[1].out[2]
    /\ steps[1]["store_pos_as"] \in DOMAIN result[2].out[2]
    /\ result[1].out[2][steps[1]["store_pos_as"]] = IntV(1)
    /\ result[2].out[2][steps[1]["store_pos_as"]] = NoneV
    /\ result[2].out[2]["status"] = NameV("ok")
    /\ parse_log[2].failures_by_step[steps[1]["id"]] = 0

\* The extract step executed k-th was given an integer start and length
ExtractCalled(k) ==
    /\ trace[k].res # "header"
    /\ steps[trace[k].i]["op"] = "extract"
    /\ "store_seq_as" \in DOMAIN steps[trace[k].i]
    /\ Param(k, "start", NoneV, "int")[1] = "int"
    /\ Param(k, "length", NoneV, "int")[1] = "int"

\* seq[start : start+length] for that step
FragmentOf(k) ==
    PySlice(ReadOf(k), Param(k, "start", NoneV, "int")[2],
            Param(k, "start", NoneV, "int")[2] + Param(k, "length", NoneV, "int")[2])

\* The fragment is in the whitelist the step names
Whitelisted(k) ==
    /\ steps[trace[k].i]["whitelist"] \in DOMAIN whitelist_sets
    /\ FragmentOf(k) \in whitelist_sets[steps[trace[k].i]["whitelist"]]

\* store_match_as, by default <id>_ok
MatchKey(i) ==
    IF "store_match_as" \in DOMAIN steps[i] THEN steps[i]["store_match_as"]
    ELSE OkKey(DeclaredId(i))

\* C15: an extract step writes seq[start : start+length] under store_seq_as, a
\* shorter fragment when the range passes the end of the read; without a
\* whitelist it returns true; with a whitelist it writes (fragment in
\* whitelists[name]) under store_match_as (default <id>_ok) and returns that
\* boolean, so a fragment outside the whitelist fails the read when the step
\* is must-pass.
C15_ExtractStoresFragment ==
    \A k \in 1..Len(trace) :
        ExtractCalled(k) =>
            /\ trace[k].res \in {"true", "false"}
            /\ trace[k].writes[1] =
                   <<steps[trace[k].i]["store_seq_as"], StrV(FragmentOf(k))>>
            /\ IF "whitelist" \notin DOMAIN steps[trace[k].i]
               THEN /\ trace[k].res = "true"
                    /\ Len(trace[k].writes) = 1
               ELSE /\ Len(trace[k].writes) = 2
                    /\ trace[k].writes[2] =
                           <<MatchKey(trace[k].i), BoolV(Whitelisted(k))>>
                    /\ trace[k].res = "true" <=> Whitelisted(k)
                    /\ (~Whitelisted(k) /\ MustPass(steps[trace[k].i])) =>
                           (k = Len(trace) /\ ReturnedFailureOf(trace[k].i))

\* The hamming_test step executed k-th was given a string ref, integer start,
\* length and max_mismatch and a registered metric
HammingTestCalled(k) ==
    /\ trace[k].res # "header"
    /\ steps[trace[k].i]["op"] = "hamming_test"
    /\ "id" \in DOMAIN steps[trace[k].i]
    /\ Param(k, "ref", NoneV, "none")[1] = "str"
    /\ Param(k, "start", NoneV, "int")[1] = "int"
    /\ Param(k, "length", NoneV, "int")[1] = "int"
    /\ Param(k, "max_mismatch", NoneV, "int")[1] = "int"
    /\ Registered(Param(k, "hamming_fn", NoneV, "none"))

\* h(ref, seq[start:start+length]) <= max_mismatch for that step
WithinMismatch(k) ==
    HammingFn(Param(k, "hamming_fn", NoneV, "none")[2],
              Param(k, "ref", NoneV, "none")[2],
              PySlice(ReadOf(k), Param(k, "start", NoneV, "int")[2],
                      Param(k, "start", NoneV, "int")[2]
                          + Param(k, "length", NoneV, "int")[2]))
        <= Param(k, "max_mismatch", NoneV, "int")[2]

\* store_result_as, by default the step id
ResultKey(i) ==
    IF "store_result_as" \in DOMAIN steps[i] THEN steps[i]["store_result_as"]
    ELSE DeclaredId(i)

\* C16: a hamming_test step stores result = (h(ref, seq[start:start+length])
\* <= max_mismatch) under store_result_as (default the step id) and returns
\* exactly result whatever must_pass is, so a failing optional hamming_test is
\* counted in failures_by_step.
C16_HammingTestReturnsItsResult ==
    \A k \in 1..Len(trace) :
        HammingTestCalled(k) =>
            /\ trace[k].writes = <<<<ResultKey(trace[k].i), BoolV(WithinMismatch(k))>>>>
            /\ trace[k].res = IF WithinMismatch(k) THEN "true" ELSE "false"
            /\ (~WithinMismatch(k) /\ ~MustPass(steps[trace[k].i])) =>
                   CountedNow(DeclaredId(trace[k].i)) = 1

\* The test step executed k-th has an id and its expression was rendered
TestCalled(k) ==
    /\ trace[k].res # "header"
    /\ steps[trace[k].i]["op"] = "test"
    /\ "id" \in DOMAIN steps[trace[k].i]
    /\ ~IsErr(Param(k, "expression", NoneV, "none"))

\* C17: a test step renders its expression, coerces the value to a boolean,
\* stores that boolean under store_result_as (default the step id) and returns
\* it: the stored value is always true or false and equals the step's success.
C17_TestStoresABoolean ==
    \A k \in 1..Len(trace) :
        TestCalled(k) =>
            /\ trace[k].res \in {"true", "false"}
            /\ Len(trace[k].writes) = 1
            /\ trace[k].writes[1][1] = ResultKey(trace[k].i)
            /\ trace[k].writes[1][2][1] = "bool"
            /\ trace[k].writes[1][2] = BoolV(trace[k].res = "true")
            /\ trace[k].res = "true"
                  <=> Truthy(Param(k, "expression", NoneV, "none"))

\* The sequence s of a regex_search call occurs in the read at position i
FullAt(i) ==
    /\ i + Len(call.args[1]) <= Len(call.args[3])
    /\ SubSeq(call.args[3], i + 1, i + Len(call.args[1])) = call.args[1]

\* The read ends, from position i on, with a prefix of s of length m..|s|
TailAt(i) ==
    /\ Len(call.args[3]) - i \in call.args[2]..Len(call.args[1])
    /\ SubSeq(call.args[3], i + 1, Len(call.args[3]))
          = SubSeq(call.args[1], 1, Len(call.args[3]) - i)

\* C18: for a full_or_tail pattern with sequence s and min_tail m <= |s|, a
\* regex_search succeeds if and only if the read contains s or ends with a
\* prefix of s of length m..|s|; a proper prefix of s that occurs only in the
\* middle of the read does not match; on success store_pos_as holds the start
\* index of the (leftmost) match.
C18_FullOrTailMatches ==
    call.fn = "regex_search" =>
        IF \E i \in 0..Len(call.args[3]) : FullAt(i) \/ TailAt(i)
        THEN /\ call.ret.res = "true"
             /\ call.ret.writes[1][1] = "p"
             /\ call.ret.writes[1][2][1] = "int"
             /\ call.ret.writes[1][2][2] \in 0..Len(call.args[3])
             /\ FullAt(call.ret.writes[1][2][2]) \/ TailAt(call.ret.writes[1][2][2])
             /\ \A i \in 0..(call.ret.writes[1][2][2] - 1) : ~FullAt(i) /\ ~TailAt(i)
        ELSE call.ret.res = "false"

\* C18 witness: the read does not contain s, has a proper prefix of s of
\* length m in the middle, where the search did not match, and a prefix at its
\* end, where it did
C18_Witness ==
    /\ call.fn = "regex_search"
    /\ call.args[2] >= 1
    /\ \A i \in 0..Len(call.args[3]) : ~FullAt(i)
    /\ \E i \in 0..Len(call.args[3]) :
          /\ i + call.args[2] < Len(call.args[3])
          /\ SubSeq(call.args[3], i + 1, i + call.args[2])
                = SubSeq(call.args[1], 1, call.args[2])
          /\ ~TailAt(i)
          /\ call.ret.res = "true"
          /\ call.ret.writes[1][2][2] > i

\* The operations of the specification and the fields each requires
Operations == {"match", "extract", "hamming_test", "test", "regex_search", "compute"}

RequiredFields(op) ==
    CASE op = "match" -> {"ref", "max_wobble", "max_mismatch", "hamming_fn",
                          "store_pos_as"}
      [] op = "extract" -> {"start", "length", "store_seq_as"}
      [] op = "hamming_test" -> {"ref", "start", "length", "max_mismatch",
                                 "hamming_fn"}
      [] op = "regex_search" -> {"pattern", "store_pos_as"}
      [] op = "test" -> {"expression"}
      [] op = "compute" -> {"expression", "store_as"}

\* The step has a known op, the fields the op requires and, if it names a
\* metric, a registered one
WellConfigured(step) ==
    /\ "op" \in DOMAIN step
    /\ step["op"] \in Operations
    /\ RequiredFields(step["op"]) \subseteq DOMAIN step
    /\ ("hamming_fn" \in DOMAIN step /\ step["hamming_fn"][1] = "name")
          => step["hamming_fn"][2] \in HAMMING_FUNCS

\* C19: construction aborts when the pipeline has a step with an unknown op,
\* an unknown metric name or a missing required field: every step of a
\* constructed parser is well configured, and parse never meets an unknown op
\* or a step without op.
C19_ConfigurationErrorsAbortConstruction ==
    /\ \A i \in 1..Len(steps) : WellConfigured(steps[i])
    /\ \A k \in 1..Len(trace) :
          trace[k].res # "header" /\ trace[k].exc # "NotImplementedError"

\* The specification cfg is the one the parsers were constructed from
Constructed(cfg) ==
    /\ steps = FreezeConstants(cfg.pipeline, cfg.globals)
    /\ globals = cfg.globals
    /\ whitelist_sets = cfg.whitelists

\* The outcome of parse on the pipeline of cfg with no field frozen
UnfrozenOutcome(cfg) ==
    ParseFrom(cfg.pipeline, 1, SeedContext(pair), ResetParseLog(cfg.pipeline))

\* C20: freezing is semantics-preserving: parse on the pipeline whose
\* globals-only templated fields were rendered once by _freeze_constants
\* returns the same outcome as parse on the same pipeline with those fields
\* left as templates, whichever field of the step holds the template.
C20_FreezingPreservesOutcomes ==
    (Idle /\ result[active].pair = pair) =>
        \A cfg \in Configs :
            Constructed(cfg) => result[active].out = UnfrozenOutcome(cfg)

\* The positions of the pairs whose outcome had status "ok"
OkPositions == {k \in 1..Len(clip.outs) : clip.outs[k] = NameV("ok")}

\* The records written are those of the pairs at OkPositions, in input order
WrittenForOk ==
    /\ Len(clip.written) = Len(clip.from)
    /\ {clip.from[j].pos : j \in 1..Len(clip.from)} = OkPositions
    /\ \A j \in 1..Len(clip.from) :
          /\ clip.written[j].id[1] = clip.reader[clip.from[j].pos].name
          /\ j > 1 => clip.from[j - 1].pos < clip.from[j].pos

\* The run of read_clip_and_write is over
ClipOver == clip.status \in {"done", "raised"}

\* C21: read_clip_and_write calls parse exactly once for each pair of the
\* iterator, in iterator order, and hands the writer exactly one record for
\* each pair whose outcome has status "ok", in input order, and none for a
\* failed pair; the number of records written equals the rise of
\* successful_reads over the run.
C21_OneParsePerPairOneRecordPerOk ==
    ClipOver =>
        /\ clip.calls = [k \in 1..Len(clip.reader) |-> k]
        /\ WrittenForOk
        /\ Len(clip.written) = parse_log[1].successful_reads
\* The characters of x at the 0-based positions start <= k < end
Window(x, start, end) ==
    [k \in 1..Max(0, Min(end, Len(x)) - start) |-> x[start + k]]

\* The bound the claim names for `key`: the value in the context ctx when the
\* key is present, the default otherwise
BoundOf(ctx, key) ==
    IF key \in DOMAIN ctx THEN ctx[key] ELSE clip.defaults[key]

\* The end bound: -1 or null means the length of the read
EndOf(ctx, key, read) ==
    IF BoundOf(ctx, key) \in {IntV(-1), NoneV} THEN Len(read)
    ELSE BoundOf(ctx, key)[2]

\* Record j was written for the pair pr with the outcome ctx: it is clipped and
\* tagged as C22 says
ClippedAndTagged(rec, pr, ctx) ==
    /\ rec.seq1 = Window(pr.seq1, BoundOf(ctx, "start_r1")[2],
                         EndOf(ctx, "end_r1", pr.seq1))
    /\ rec.qual1 = Window(pr.qual1, BoundOf(ctx, "start_r1")[2],
                          EndOf(ctx, "end_r1", pr.seq1))
    /\ rec.seq2 = Window(pr.seq2, BoundOf(ctx, "start_r2")[2],
                         EndOf(ctx, "end_r2", pr.seq2))
    /\ rec.qual2 = Window(pr.qual2, BoundOf(ctx, "start_r2")[2],
                          EndOf(ctx, "end_r2", pr.seq2))
    /\ Len(rec.seq1) = Len(rec.qual1)
    /\ Len(rec.seq2) = Len(rec.qual2)
    /\ SubSeq(rec.id, 1, 2) = <<pr.name, "/1">>
    /\ (Len(rec.id) > 2) <=> (BoundOf(ctx, "read_tag")[2] # <<>>)
    /\ Len(rec.id) > 2 => rec.id = <<pr.name, "/1", "_", BoundOf(ctx, "read_tag")[2]>>

\* C22: for each record read_clip_and_write writes, the sequence and the
\* quality of each read are sliced by the same bounds [start, end), taken from
\* the context keys start_r1, end_r1, start_r2, end_r2 when present and from
\* the defaults otherwise, an end of -1 or null meaning the length of the
\* read; the reads having len(seq) = len(qual), the written sequence and
\* quality have equal length; the written id is read_id/1, followed by _<tag>
\* if and only if the tag is non-empty.
C22_RecordClippedAndTagged ==
    \A j \in 1..Len(clip.written) :
        ClippedAndTagged(clip.written[j], clip.reader[clip.from[j].pos],
                         clip.from[j].ctx)

\* A record was written whose bounds of read 1 and whose tag came from the
\* context, and whose end of read 2 is the null default
C22_Witness ==
    \E j \in 1..Len(clip.written) :
        /\ {"start_r1", "end_r1", "read_tag"} \subseteq DOMAIN clip.from[j].ctx
        /\ clip.from[j].ctx["start_r1"] = IntV(1)
        /\ clip.defaults.end_r2 = NoneV
        /\ clip.written[j].seq1 = GGT
        /\ clip.written[j].qual2 = Quals(4)
        /\ Len(clip.written[j].id) = 4
\* The globals the expression e references
RECURSIVE GlobalRefs(_)
GlobalRefs(e) ==
    CASE e[1] = "param" -> {e[2]}
      [] e[1] \in {"lit", "var"} -> {}
      [] OTHER -> GlobalRefs(e[2]) \cup GlobalRefs(e[3])

\* The globals the template of key k in table t references
RefsOf(t, k) == IF t[k][1] = "tpl" THEN GlobalRefs(t[k][2]) \cap DOMAIN t ELSE {}

\* The globals reached from those of S in at most n more references
RECURSIVE ReachedFrom(_, _, _)
ReachedFrom(t, S, n) ==
    IF n = 0 THEN S
    ELSE ReachedFrom(t, S \cup UNION {RefsOf(t, k) : k \in S}, n - 1)

\* The references between the globals of t have a cycle
Cyclic(t) ==
    \E k \in DOMAIN t : k \in ReachedFrom(t, RefsOf(t, k), Cardinality(DOMAIN t))

\* _resolve_globals has returned
Resolved == resolving.status \in {"done", "built", "aborted"}

\* One more pass changes nothing, and every global holds the value its
\* template renders to over the values of the other globals
FullyRendered ==
    \A k \in DOMAIN globals :
        /\ globals[k][1] # "tpl"
        /\ Render(globals[k], [x \in {} |-> NoneV], globals) = globals[k]
        /\ Render(resolving.table0[k], [x \in {} |-> NoneV], globals) = globals[k]

\* C23: for a globals table whose references between globals are acyclic,
\* _resolve_globals ends after a bounded number of passes (at most one per
\* global, and one more that changes nothing), whatever the order of the
\* keys, with every global fully rendered and one more pass changing nothing;
\* no step field is frozen before that.
C23_AcyclicGlobalsReachFixedPoint ==
    ~Cyclic(resolving.table0) =>
        /\ resolving.status # "raised"
        /\ resolving.passes <= Cardinality(DOMAIN globals) + 1
        /\ Resolved => FullyRendered
        /\ steps # <<>> => Resolved

\* C24: for a globals table with a reference cycle, a global that references
\* itself included, construction ends by rejecting the specification:
\* _resolve_globals never returns normally, and it never goes on pass after
\* pass.
C24_CyclicGlobalsRejected ==
    Cyclic(resolving.table0) =>
        /\ ~Resolved
        /\ resolving.passes <= Cardinality(DOMAIN globals) + 1
\* Both threads have called parse and both calls have left
BothCompleted == \A t \in Threads : evaluators[t].phase = "done"

\* C25: when two evaluators run parse concurrently on one shared ReadParser,
\* no update of the parse log is lost: once both calls have completed,
\* total_reads is the number of parse calls made and
\* total_reads = successful_reads + failed_reads.
C25_NoLostUpdate ==
    BothCompleted =>
        /\ parse_log[1].total_reads = Cardinality(Threads)
        /\ parse_log[1].total_reads =
              parse_log[1].successful_reads + parse_log[1].failed_reads
\* seq[start:start+length] of the hamming_test step executed k-th
TestedWindow(k) ==
    PySlice(ReadOf(k), Param(k, "start", NoneV, "int")[2],
            Param(k, "start", NoneV, "int")[2] + Param(k, "length", NoneV, "int")[2])

\* The result that step stored
StoredResult(k) == trace[k].writes[1][2]

\* The positions of ref that mismatch the window under the step's metric,
\* which forgives the conversion f -> t (no conversion for hamming)
MismatchesUnder(ref, window, f, t) ==
    {i \in 1..Len(ref) : ref[i] # window[i] /\ ~(ref[i] = f /\ window[i] = t)}

\* The window is complete and mismatches ref in at most max_mismatch positions
CompleteAndWithin(k) ==
    LET ref == Param(k, "ref", NoneV, "none")[2]
        fn == Param(k, "hamming_fn", NoneV, "none")[2]
    IN /\ Len(TestedWindow(k)) = Len(ref)
       /\ Cardinality(MismatchesUnder(ref, TestedWindow(k),
                          CASE fn = "hammingTC" -> "T" [] fn = "hammingAG" -> "A"
                            [] OTHER -> "",
                          CASE fn = "hammingTC" -> "C" [] fn = "hammingAG" -> "G"
                            [] OTHER -> ""))
             <= Param(k, "max_mismatch", NoneV, "int")[2]

\* C26: a hamming_test step succeeds only on a complete window: when
\* seq[start:start+length] is shorter than ref, the read ending before
\* start+length or length being less than |ref|, the stored result is false;
\* a stored true implies a window of exactly |ref| characters with at most
\* max_mismatch mismatching positions under the selected metric.
C26_HammingTestNeedsCompleteWindow ==
    \A k \in 1..Len(trace) :
        HammingTestCalled(k) =>
            /\ Len(TestedWindow(k)) < Len(Param(k, "ref", NoneV, "none")[2]) =>
                   StoredResult(k) = BoolV(FALSE)
            /\ StoredResult(k) = BoolV(TRUE) => CompleteAndWithin(k)
====
